---- MODULE Spec2Model ----
(***************************************************************************)
(* rs3f: the connect / disconnect orchestration of a two-layer mount       *)
(* (sshfs raw mount, gocryptfs encrypted mount on top of it).              *)
(*                                                                         *)
(* The state is the part of the machine the orchestration reads and        *)
(* writes: the two layer paths of a mountpoint, the identity files in the  *)
(* runtime directory, the environment, and the position of the call in     *)
(* progress.  External tools are nondeterministic in their exit codes.     *)
(***************************************************************************)
EXTENDS Naturals, Integers, Sequences, FiniteSets, TLC

VARIABLES
    fs,         \* path -> state of that path on disk
    parents,    \* the mountpoints whose parent directory exists
    idfiles,    \* identity-file path -> NoFile or [content, mode]
    env,        \* [path_set, xdg_set, bins]: $PATH, $XDG_RUNTIME_DIR, installed tools
    remote,     \* [initialized, steady]: gocryptfs.conf present in gocryptfs_root;
                \* steady: the server answers, the credentials and the volume are
                \* valid and the password is the right one, for the whole run
    pc,         \* position of the call in progress
    call,       \* [op, target_user, mountpoint, port, allow_init, nested, li]
    loc,        \* locals of connect: remote_uid, password_str, needs_cleanup, stdout
    result,     \* outcome of the call: R("none"), Ok or an exception
    log,        \* what the current top-level call did, in order
    start,      \* disk state when the current top-level call began
    prev,       \* the previous top-level call: [op, result, start]
    calls,      \* number of top-level calls begun
    other,      \* a second process, while it is not the one running:
                \* its [pc, call, loc, result, log, start]
    front,      \* the front end that called connect:
                \* [caller, mountpoint, phase, failure, cleanup, status]
    tray,       \* rs3ftray: [volumes, rows, checked, MOUNTED_VOLUMES, slot, open, error]
    fetch       \* rs3fc.passwordfetchers: [todo, registry, port, phase, i, n, trace, result]

vars == <<fs, parents, idfiles, env, remote, pc, call, loc, result, log, start, prev, calls,
          other, front, fetch, tray>>

(***************************************************************************)
(* Bounds of the model.                                                    *)
(***************************************************************************)
MaxCalls == 2

(***************************************************************************)
(* Program constants.                                                      *)
(***************************************************************************)
Mode600 == 384          \* 0o600
Mode644 == 420          \* 0o666 & ~0o022, what open(path, "w") creates
UsersGid == 999
PwExit1 == 12
PwExit2 == 22

RuntimeDir == "/run/user/1000"
LocalUser == "bob"                 \* getpass.getuser()
Mountpoints == {"/mnt/vol"}
\* the mountpoints of a machine with two volumes, and their parent directory
AllMountpoints == {"/mnt/vol", "/mnt/other"}
ParentOf(mountpoint) == "/mnt"             \* os.path.split(abspath)[0]
Tools == {"sshfs", "gocryptfs", "fusermount"}

\* An exception (or the normal return) of a call.
R(cls, msg) == [cls |-> cls, msg |-> msg]
Ok == R("ok", "")
Pending == R("none", "")

RS3FClasses == {"RS3FRuntimeError", "NetworkingError", "InvalidSSHCredentials",
                "InvalidPassword", "EnvironmentNotSetError", "BinaryMissingError"}

\* a variant of get_mount_key that hashes nothing of the mountpoint
get_mount_key_Fixed(mountpoint) == "9bbffa0e"

\* hashlib.sha256(abspath(mountpoint)).hexdigest()[:8]
get_mount_key(mountpoint) ==
    CASE mountpoint = "/mnt/vol" -> "9bbffa0e"
      [] mountpoint = "/mnt/other" -> "1d3d2fb9"

get_raw_mount_path(mountpoint) == RuntimeDir \o "/rs3f_" \o get_mount_key(mountpoint)
uidfile_path(mountpoint) == RuntimeDir \o "/uidfile_" \o get_mount_key(mountpoint)
gidfile_path(mountpoint) == RuntimeDir \o "/gidfile_" \o get_mount_key(mountpoint)

UIDFILE(local_username, remote_uid) == << <<local_username, remote_uid>>, <<"root", 0>> >>
GIDFILE == << <<"users", UsersGid>>, <<"root", 0>> >>

NoFile == [content |-> <<>>, mode |-> 0]

(***************************************************************************)
(* Paths on disk.  "broken" is a FUSE mount whose process exited           *)
(* improperly: listed in its parent, but stat fails on it.                 *)
(***************************************************************************)
PathStates == {"absent", "dir", "nonempty", "mounted", "broken"}
Exists(st) == st \in {"dir", "nonempty", "mounted"}      \* os.path.exists
Listed(st) == st # "absent"                               \* name in os.listdir(parent)
IsMount(st) == st = "mounted"                             \* os.path.ismount

Paths == Mountpoints \cup {get_raw_mount_path(m) : m \in Mountpoints}
IdPaths == {uidfile_path(m) : m \in Mountpoints} \cup {gidfile_path(m) : m \in Mountpoints}

\* a variant of check_binary_available that returns True whatever $PATH holds
BinaryCheck_Found(name) == IF ~env.path_set THEN "env" ELSE "yes"

\* check_binary_available(name): "env", TRUE or FALSE
BinaryCheck(name) ==
    IF ~env.path_set THEN "env" ELSE IF name \in env.bins THEN "yes" ELSE "no"

(***************************************************************************)
(* The sftp listing, as sftp.stdout.split(b"\n") gives it: a sequence of   *)
(* lines, each line the tokens of line.split().                            *)
(***************************************************************************)
Echo == <<"sftp>", "ls", "-ln">>
RootLine(uid) == <<"drwxr-xr-x", "2", uid, "999", "4096", "gocryptfs_root">>
OtherLine == <<"drwxr-xr-x", "2", "1000", "999", "4096", "lost+found">>
Listings ==
    { <<Echo, RootLine("1000"), <<>> >>,             \* a valid volume
      <<Echo, OtherLine, RootLine("1001"), <<>> >>,  \* the entry further down
      <<Echo, OtherLine, <<>> >>,                    \* no entry, final newline
      <<Echo, OtherLine>>,                           \* no entry, no final newline
      << <<>> >>,                                    \* empty output
      <<RootLine("1000"), <<>> >>,                   \* the entry on the first line
      <<Echo, <<>>, RootLine("1000"), <<>> >>,       \* a blank line before the entry
      <<Echo, <<"gocryptfs_root">> >>,               \* a line with the name alone
      <<Echo, RootLine("alice"), <<>> >> }           \* a non-numeric owner field

\* int(token): -1 stands for ValueError
IntOf(tok) == CASE tok = "1000" -> 1000 [] tok = "1001" -> 1001 [] OTHER -> -1

RECURSIVE ScanLines(_, _)
ScanLines(lines, i) ==
    IF i > Len(lines) THEN R("RS3FRuntimeError", "not a valid volume")
    ELSE LET parts == lines[i] IN
         IF parts = <<>> THEN R("IndexError", "parts[-1]")
         ELSE IF parts[Len(parts)] = "gocryptfs_root"
              THEN IF Len(parts) < 3 THEN R("IndexError", "parts[2]")
                   ELSE IF IntOf(parts[3]) < 0 THEN R("ValueError", "int")
                   ELSE [cls |-> "uid", msg |-> "", uid |-> IntOf(parts[3])]
              ELSE ScanLines(lines, i + 1)

\* the loop of _get_remote_uid over stdout.split(b"\n")[1:]
ParseListing(lines) == ScanLines(lines, 2)

(***************************************************************************)
(* The reachability probe: what ssh wrote to stderr, as its words, and its *)
(* exit code.                                                              *)
(***************************************************************************)
SshStderrs ==
    { <<"alice@host:", "Permission", "denied", "(publickey,password).">>,
      <<"Warning:", "Permanently", "added", "host.", "Permission", "denied">>,
      <<"ssh:", "connect", "to", "host", "port", "22:", "Connection", "refused">>,
      <<"Host", "key", "verification", "failed.">>,
      <<"permission", "denied">>,
      <<"Permission", "to", "log", "in", "denied">>,
      <<>> }
SshExitCodes == {0, 1, 255}

\* needle in haystack
Contains(haystack, needle) ==
    \E i \in 1..(Len(haystack) - Len(needle) + 1) :
      SubSeq(haystack, i, i + Len(needle) - 1) = needle

\* a variant of the probe that trusts ssh's exit code
ProbeReachable_ByExitCode(rc, stderr) == rc = 255

\* b"Permission denied" in ssh.stderr
ProbeReachable(rc, stderr) == Contains(stderr, <<"Permission", "denied">>)

(***************************************************************************)
(* Initial states: any leftover of an earlier session.                     *)
(***************************************************************************)
Envs ==
    { [path_set |-> p, xdg_set |-> x, bins |-> b] :
        p \in BOOLEAN, x \in BOOLEAN,
        b \in {Tools} \cup {Tools \ {t} : t \in Tools} }

\* the completed ssh process of the probe, while _check_ssh_server_is_up holds it
NoProbe == [rc |-> 0, stderr |-> <<"not run">>]
NoLocals == [remote_uid |-> 0, password_str |-> "", needs_cleanup |-> FALSE, stdout |-> <<>>,
             ssh |-> NoProbe, procs |-> <<>>]
NoCall == [op |-> "none", target_user |-> "", mountpoint |-> "", port |-> "none",
           allow_init |-> FALSE, nested |-> FALSE, li |-> 0]
Snapshot == [fs |-> fs, parents |-> parents, idfiles |-> idfiles]
\* no front-end operation in progress
NoFront == [caller |-> "none", mountpoint |-> "", phase |-> "idle", failure |-> "",
            cleanup |-> FALSE, status |-> "none"]
\* the tray is not running: MOUNTED_VOLUMES is the empty dictionary of line 14
NoSlot == [op |-> "none", volume |-> "", todo |-> <<>>, volumes |-> <<>>]
NoTray == [volumes |-> <<>>, rows |-> <<>>, checked |-> {}, MOUNTED_VOLUMES |-> [v \in {} |-> ""],
           slot |-> NoSlot, open |-> {}, error |-> ""]
\* rs3fc.passwordfetchers not imported: _PASSWORD_FETCHERS is not defined yet
NoFetch == [todo |-> <<>>, registry |-> <<>>, port |-> "none", phase |-> "unloaded", i |-> 0,
            n |-> 0, trace |-> <<>>, result |-> Pending]

Init ==
    /\ fs \in [Paths -> PathStates]
    /\ \A m \in Mountpoints : fs[get_raw_mount_path(m)] # "nonempty"
    /\ parents \in SUBSET Mountpoints
    /\ \A m \in Mountpoints : Listed(fs[m]) => m \in parents
    /\ \E leftover \in BOOLEAN :
         idfiles = [p \in IdPaths |->
                      IF ~leftover THEN NoFile
                      ELSE IF p \in {uidfile_path(m) : m \in Mountpoints}
                           THEN [content |-> UIDFILE(LocalUser, 1001), mode |-> Mode600]
                           ELSE [content |-> GIDFILE, mode |-> Mode600]]
    /\ env \in Envs
    /\ remote \in [initialized : BOOLEAN, steady : {FALSE}]
    /\ pc = "idle"
    /\ call = NoCall
    /\ loc = NoLocals
    /\ result = Pending
    /\ log = <<>>
    /\ start = [fs |-> fs, parents |-> parents, idfiles |-> idfiles]
    /\ prev = [op |-> "none", result |-> Pending, start |-> [fs |-> fs, parents |-> parents, idfiles |-> idfiles]]
    /\ calls = 0
    /\ other = [pc |-> "idle", call |-> NoCall, loc |-> NoLocals, result |-> Pending,
                log |-> <<>>, start |-> [fs |-> fs, parents |-> parents, idfiles |-> idfiles]]
    /\ front = NoFront
    /\ fetch = NoFetch
    /\ tray = NoTray

\* A machine with two volumes under the same parent directory, every tool
\* installed and the environment set.  Each volume is unmounted, mounted,
\* left as two empty directories, or has a directory with files at its
\* mountpoint.  The first volume was mounted before, by a call that counts
\* as the first of this run, and has its identity files.
LayerPairs ==
    { <<"absent", "absent">>, <<"dir", "dir">>, <<"mounted", "mounted">>,
      <<"nonempty", "absent">> }

InitTwo ==
    /\ fs \in [AllMountpoints \cup {get_raw_mount_path(m) : m \in AllMountpoints} -> PathStates]
    /\ \A m \in AllMountpoints : <<fs[m], fs[get_raw_mount_path(m)]>> \in LayerPairs
    /\ parents \in {{}, AllMountpoints}
    /\ \A m \in AllMountpoints : Listed(fs[m]) => m \in parents
    /\ idfiles = [p \in {uidfile_path(m) : m \in AllMountpoints}
                        \cup {gidfile_path(m) : m \in AllMountpoints} |->
                    CASE p = uidfile_path("/mnt/vol") ->
                           [content |-> UIDFILE(LocalUser, 1001), mode |-> Mode600]
                      [] p = gidfile_path("/mnt/vol") ->
                           [content |-> GIDFILE, mode |-> Mode600]
                      [] OTHER -> NoFile]
    /\ env = [path_set |-> TRUE, xdg_set |-> TRUE, bins |-> Tools]
    /\ remote \in [initialized : BOOLEAN, steady : {FALSE}]
    /\ pc = "idle"
    /\ call = NoCall
    /\ loc = NoLocals
    /\ result = Pending
    /\ log = <<>>
    /\ start = [fs |-> fs, parents |-> parents, idfiles |-> idfiles]
    /\ prev = [op |-> "none", result |-> Pending, start |-> [fs |-> fs, parents |-> parents, idfiles |-> idfiles]]
    /\ calls = 1
    /\ other = [pc |-> "idle", call |-> NoCall, loc |-> NoLocals, result |-> Pending,
                log |-> <<>>, start |-> [fs |-> fs, parents |-> parents, idfiles |-> idfiles]]
    /\ front = NoFront
    /\ fetch = NoFetch
    /\ tray = NoTray

\* Two processes on a machine with one volume, every tool installed and the
\* environment set; the volume is unmounted, or a failed connect left its
\* raw directory, or its two directories.
InitRace ==
    /\ fs \in [Paths -> PathStates]
    /\ \A m \in Mountpoints :
         <<fs[m], fs[get_raw_mount_path(m)]>> \in
            { <<"absent", "absent">>, <<"absent", "dir">>, <<"dir", "dir">> }
    /\ parents = Mountpoints
    /\ idfiles = [p \in IdPaths |-> NoFile]
    /\ env = [path_set |-> TRUE, xdg_set |-> TRUE, bins |-> Tools]
    /\ remote \in [initialized : BOOLEAN, steady : {TRUE}]
    /\ pc = "idle"
    /\ call = NoCall
    /\ loc = NoLocals
    /\ result = Pending
    /\ log = <<>>
    /\ start = [fs |-> fs, parents |-> parents, idfiles |-> idfiles]
    /\ prev = [op |-> "none", result |-> Pending, start |-> [fs |-> fs, parents |-> parents, idfiles |-> idfiles]]
    /\ calls = 0
    /\ other = [pc |-> "idle", call |-> NoCall, loc |-> NoLocals, result |-> Pending,
                log |-> <<>>, start |-> [fs |-> fs, parents |-> parents, idfiles |-> idfiles]]
    /\ front = NoFront
    /\ fetch = NoFetch
    /\ tray = NoTray

(***************************************************************************)
(* Helpers of the actions.                                                 *)
(***************************************************************************)
Ev(op, rc) == [op |-> op, rc |-> rc]
Raise(e) == pc' = "done" /\ result' = e

RawPath == get_raw_mount_path(call.mountpoint)

\* the mountpoints of this machine
Targets == AllMountpoints \cap DOMAIN fs

\* a variant of connect that creates the raw directory before the preflight
ConnectSteps_MkdirFirst ==
    <<"c_bin", "c_stale", "c_mkraw", "c_probe", "c_uid", "c_wuid", "c_wgid", "c_chmod",
      "c_sshfs", "c_marker", "c_pw", "c_mkmnt", "c_gocryptfs">>

\* a variant of connect that resolves the password before it mounts anything
ConnectSteps_PasswordFirst ==
    <<"c_bin", "c_stale", "c_probe", "c_uid", "c_wuid", "c_wgid", "c_chmod",
      "c_mkraw", "c_pw", "c_sshfs", "c_marker", "c_mkmnt", "c_gocryptfs">>

\* a variant of connect that mounts the raw volume before it writes the identity files
ConnectSteps_MountBeforeFiles ==
    <<"c_bin", "c_stale", "c_probe", "c_uid", "c_mkraw", "c_sshfs", "c_wuid", "c_wgid",
      "c_chmod", "c_marker", "c_pw", "c_mkmnt", "c_gocryptfs">>

\* The steps of connect, in the order of its body.  gocryptfs -init ("c_init")
\* is the branch of "c_marker" taken for an uninitialized volume with allow_init.
ConnectSteps ==
    <<"c_bin", "c_stale", "c_probe", "c_uid", "c_wuid", "c_wgid", "c_chmod",
      "c_mkraw", "c_sshfs", "c_marker", "c_pw", "c_mkmnt", "c_gocryptfs">>

IndexOf(step) == CHOOSE i \in 1..Len(ConnectSteps) : ConnectSteps[i] = step

\* control passes to the statement after `step`; after the last one connect returns
Continue(step) ==
    IF IndexOf(step) = Len(ConnectSteps)
    THEN pc' = "done" /\ result' = Ok
    ELSE pc' = ConnectSteps[IndexOf(step) + 1] /\ result' = result

(***************************************************************************)
(* The callers: a top-level connect or disconnect begins when no call is   *)
(* in progress.                                                            *)
(***************************************************************************)
Begin(op, port, allow_init) ==
    /\ pc \in {"idle", "done"}
    /\ calls < MaxCalls
    /\ calls' = calls + 1
    /\ prev' = [op |-> call.op, result |-> result, start |-> start]
    /\ start' = Snapshot
    /\ \E m \in Targets :
         call' = [op |-> op, target_user |-> "alice", mountpoint |-> m, port |-> port,
                  allow_init |-> allow_init, nested |-> FALSE, li |-> 0]
    /\ loc' = NoLocals
    /\ result' = Pending
    /\ log' = <<>>
    /\ UNCHANGED <<fs, parents, idfiles, env, remote, other, fetch>>

\* rs3fc passes int(match["port"]), the port of the config file (a string) or None
CallConnect ==
    /\ \E port \in {"none", "int", "str"}, allow_init \in BOOLEAN :
         Begin("connect", port, allow_init)
    /\ pc' = ConnectSteps[1]
    /\ UNCHANGED <<front, tray>>

CallDisconnect ==
    /\ Begin("disconnect", "none", FALSE)
    /\ pc' = "d_bin"
    /\ UNCHANGED <<front, tray>>

\* KeyboardInterrupt while connect runs
Interrupt ==
    /\ call.op = "connect"
    /\ pc \notin {"idle", "done"}
    /\ Raise(R("KeyboardInterrupt", ""))
    /\ UNCHANGED <<fs, parents, idfiles, env, remote, call, loc, log, start, prev, calls, other, front, fetch, tray>>

(***************************************************************************)
(* The processes connect and disconnect run.  An argument is the sequence  *)
(* of the pieces it is formatted from: f"{target_user}@{server}" is        *)
(* <<target_user, "@", server>>.  loc.procs is the list of the             *)
(* subprocess.run calls of the current call, each with its argument vector *)
(* and what it was given on its standard input.                            *)
(***************************************************************************)
Server == "host"
PortText == "2222"                                   \* str(port)
Literals(words) == [i \in DOMAIN words |-> <<words[i]>>]
Destination == <<call.target_user, "@", Server>>     \* f"{target_user}@{server}"
NoInput == <<>>
Proc(argv, input) == [argv |-> argv, input |-> input]
Ran(argv, input) == [loc EXCEPT !.procs = Append(@, Proc(argv, input))]

SshCommand ==
    Literals(<<"ssh", "-o", "BatchMode=yes", "-o", "HostBasedAuthentication=no",
               "-o", "PasswordAuthentication=no", "-o", "PubkeyAuthentication=no",
               "-o", "ConnectTimeout=60">>)
    \o <<Destination>>
    \o (IF call.port # "none" THEN Literals(<<"-p", PortText>>) ELSE <<>>)

SftpArgs ==
    Literals(<<"sftp", "-q", "-b", "-">>)
    \o (IF call.port # "none" THEN Literals(<<"-P", PortText>>) ELSE <<>>)
    \o <<Destination>>
SftpInput == <<"ls -ln">>

\* ",".join(options)
SshfsOptions ==
    <<"reconnect", "ServerAliveInterval=10", "ServerAliveCountMax=1", "IPQoS=lowdelay",
      "idmap=file", "uidfile=", uidfile_path(call.mountpoint),
      "gidfile=", gidfile_path(call.mountpoint), "nomap=ignore">>
    \o (IF call.port # "none" THEN <<"port=", PortText>> ELSE <<>>)
SshfsArgs ==
    Literals(<<"sshfs", "-o">>) \o <<SshfsOptions>>
    \o <<Destination \o <<":/">>, <<RawPath>> >>

CryptfsDir == <<RawPath, "/", "gocryptfs_root">>     \* os.path.join
InitArgs == Literals(<<"gocryptfs", "-init">>) \o <<CryptfsDir>>

\* a variant of connect that hands the password to gocryptfs through -extpass
GocryptfsArgs_ExtPass ==
    Literals(<<"gocryptfs", "-extpass">>) \o << <<"echo ", loc.password_str>> >>
    \o <<CryptfsDir, <<call.mountpoint>> >>

GocryptfsArgs == Literals(<<"gocryptfs">>) \o <<CryptfsDir, <<call.mountpoint>> >>

GocryptfsInput == <<loc.password_str>>               \* input=password_str.encode()

FusermountArgs(abspath) == Literals(<<"fusermount", "-u">>) \o << <<abspath>> >>

(***************************************************************************)
(* disconnect and _umount_fuse_fs                                          *)
(***************************************************************************)
\* a variant of disconnect that tears the raw layer down first
TeardownOrder_RawFirst == <<"raw", "mnt">>

\* a variant of disconnect that leaves the raw layer alone
TeardownOrder_MountpointOnly == <<"mnt">>

\* disconnect unmounts the gocryptfs layer, then the raw layer
TeardownOrder == <<"mnt", "raw">>

LayerPath(layer) == IF layer = "mnt" THEN call.mountpoint ELSE RawPath
CurLayer == TeardownOrder[call.li]
CurPath == LayerPath(CurLayer)

\* a variant of _umount_fuse_fs that runs fusermount -u on every listed path
NeedsUnmount_Always(st) == TRUE

\* a variant of _umount_fuse_fs that asks os.path.ismount alone
NeedsUnmount_MountsOnly(st) == IsMount(st)

\* the condition under which fusermount -u is run on a listed path
NeedsUnmount(st) == ~Exists(st) \/ IsMount(st)

\* a variant of _umount_fuse_fs that does not look at fusermount's exit code
FusermountFailed_Ignored(rc) == FALSE

FusermountFailed(rc) == rc # 0

\* After the work on layer i - 1: go on to layer i, or return from disconnect.
\* The raw path is computed (get_raw_mount_path) right before the raw layer.
EnterLayer(i) ==
    IF i > Len(TeardownOrder)
    THEN /\ IF call.nested
            THEN Continue("c_stale")
            ELSE pc' = "done" /\ result' = Ok
         /\ call' = [call EXCEPT !.nested = FALSE, !.li = 0]
    ELSE IF TeardownOrder[i] = "raw" /\ ~env.xdg_set
         THEN /\ Raise(R("EnvironmentNotSetError", "XDG_RUNTIME_DIR"))
              /\ call' = call
         ELSE /\ pc' = "u_list"
              /\ call' = [call EXCEPT !.li = i]
              /\ result' = result

DisconnectBin ==
    /\ pc = "d_bin"
    /\ log' = Append(log, Ev("bincheck_fusermount", 0))
    /\ CASE BinaryCheck("fusermount") = "env" ->
              Raise(R("EnvironmentNotSetError", "PATH")) /\ call' = call
         [] BinaryCheck("fusermount") = "no" ->
              Raise(R("BinaryMissingError", "fusermount")) /\ call' = call
         [] OTHER -> EnterLayer(1)
    /\ UNCHANGED <<fs, parents, idfiles, env, remote, loc, start, prev, calls, other, front, fetch, tray>>

\* mountpoint_exists = name in os.listdir(parent), and the branch on it
UmountList ==
    /\ pc = "u_list"
    /\ IF CurLayer = "mnt" /\ call.mountpoint \notin parents
       THEN /\ Raise(R("FileNotFoundError", "listdir"))
            /\ call' = call
       ELSE IF ~Listed(fs[CurPath])
            THEN EnterLayer(call.li + 1)
            ELSE /\ pc' = IF NeedsUnmount(fs[CurPath]) THEN "u_fusermount" ELSE "u_rmdir"
                 /\ UNCHANGED <<call, result>>
    /\ UNCHANGED <<fs, parents, idfiles, env, remote, loc, log, start, prev, calls, other, front, fetch, tray>>

UmountFusermount ==
    /\ pc = "u_fusermount"
    /\ \E rc \in {0, 1} :
         /\ log' = Append(log, Ev("fusermount_" \o CurLayer, rc))
         /\ loc' = Ran(FusermountArgs(CurPath), NoInput)
         /\ IF FusermountFailed(rc)
            THEN /\ Raise(R("RS3FRuntimeError", "unmount " \o CurLayer))
                 /\ fs' = fs
            ELSE /\ pc' = "u_rmdir"
                 /\ result' = result
                 /\ fs' = IF rc = 0 THEN [fs EXCEPT ![CurPath] = "dir"] ELSE fs
    /\ UNCHANGED <<parents, idfiles, env, remote, call, start, prev, calls, other, front, fetch, tray>>

\* a variant of _umount_fuse_fs that removes the identity files with the directory
AfterRmdir_IdFilesRemoved(files) ==
    [p \in DOMAIN files |->
        IF p \in {uidfile_path(call.mountpoint), gidfile_path(call.mountpoint)}
        THEN NoFile ELSE files[p]]

\* the files of the runtime directory after os.rmdir(abspath): the directory
\* is the only thing removed
AfterRmdir(files) == files

\* a variant of _umount_fuse_fs that removes the directory with what is in it
RmdirFails_RemovesTree(st) == st \in {"mounted", "broken"}

\* os.rmdir raises OSError for a directory that is not empty and for a
\* mount point
RmdirFails(st) == st \in {"nonempty", "mounted", "broken"}

\* os.rmdir(abspath)
UmountRmdir ==
    /\ pc = "u_rmdir"
    /\ IF RmdirFails(fs[CurPath])
       THEN /\ log' = Append(log, Ev("rmdir_" \o CurLayer, 1))
            /\ Raise(R("OSError", "rmdir " \o CurLayer))
            /\ UNCHANGED <<fs, call, idfiles>>
       ELSE /\ log' = Append(log, Ev("rmdir_" \o CurLayer, 0))
            /\ fs' = [fs EXCEPT ![CurPath] = "absent"]
            /\ idfiles' = AfterRmdir(idfiles)
            /\ EnterLayer(call.li + 1)
    /\ UNCHANGED <<parents, env, remote, loc, start, prev, calls, other, front, fetch, tray>>

(***************************************************************************)
(* connect                                                                 *)
(***************************************************************************)
\* a variant of connect that goes on after a failed raw mount
SshfsFailed_Ignored(rc) == FALSE

SshfsFailed(rc) == rc # 0

\* a variant of connect that undoes its mounts and directories before raising
AfterFailure_RolledBack(f) == [p \in DOMAIN f |-> IF p \in {call.mountpoint, RawPath} THEN "absent" ELSE f[p]]

\* the disk after a tool of connect exited nonzero: connect raises at once,
\* there is no try/finally around its body
AfterFailure(f) == f

\* a variant of connect whose stale-state check looks at the mountpoint alone
NeedsCleanup_MountpointOnly(mnt_state, raw_state) == Exists(mnt_state)

\* needs_cleanup: os.path.exists on the mountpoint and on the raw mount path
NeedsCleanup(mnt_state, raw_state) == Exists(mnt_state) \/ Exists(raw_state)

\* exit codes of the gocryptfs mount: success, the documented password codes,
\* their neighbours and other failures
GocryptfsExitCodes == {0, 1, 11, PwExit1, 13, 21, PwExit2, 23, 255}

\* a variant of connect that knows only the first of the two password codes
GocryptfsError_FirstCodeOnly(rc) ==
    IF rc = PwExit1
    THEN R("InvalidPassword", "Invalid or empty gocryptfs password")
    ELSE R("RS3FRuntimeError", "Couldn't mount gocryptfs")

\* the class raised for a nonzero exit code of the gocryptfs mount
GocryptfsError(rc) ==
    IF rc \in {PwExit1, PwExit2}
    THEN R("InvalidPassword", "Invalid or empty gocryptfs password")
    ELSE R("RS3FRuntimeError", "Couldn't mount gocryptfs")

\* a variant of connect that probes for gocryptfs_root instead of gocryptfs.conf
MarkerPresent_RootOnly == fs[RawPath] = "mounted"

\* os.path.exists(raw_mount_path/gocryptfs_root/gocryptfs.conf)
MarkerPresent == fs[RawPath] = "mounted" /\ remote.initialized

(***************************************************************************)
(* What the tools and the resolver can answer.                             *)
(***************************************************************************)
ProbeOutcomes ==
    IF remote.steady
    THEN {<<255, <<"alice@host:", "Permission", "denied", "(publickey,password).">> >>}
    ELSE SshExitCodes \X SshStderrs
ListingOutcomes ==
    IF remote.steady
    THEN {<<0, <<Echo, RootLine("1000"), <<>> >> >>}
    ELSE {0, 1} \X Listings
ResolverOutcomes == IF remote.steady THEN {"secret"} ELSE {"secret", "None", "raise"}
MountOutcomes == IF remote.steady THEN {0} ELSE GocryptfsExitCodes

\* Check for missing binaries
ConnectBin ==
    /\ pc = "c_bin"
    /\ log' = Append(log, Ev("bincheck", 0))
    /\ CASE BinaryCheck("sshfs") = "env" -> Raise(R("EnvironmentNotSetError", "PATH"))
         [] BinaryCheck("sshfs") = "no" -> Raise(R("BinaryMissingError", "sshfs"))
         [] BinaryCheck("gocryptfs") = "no" -> Raise(R("BinaryMissingError", "gocryptfs"))
         [] OTHER -> Continue("c_bin")
    /\ UNCHANGED <<fs, parents, idfiles, env, remote, call, loc, start, prev, calls, other, front, fetch, tray>>

\* Cleanup eventual invalid state
ConnectStale ==
    /\ pc = "c_stale"
    /\ IF ~env.xdg_set
       THEN /\ Raise(R("EnvironmentNotSetError", "XDG_RUNTIME_DIR"))
            /\ UNCHANGED <<call, loc, log>>
       ELSE LET needs_cleanup == NeedsCleanup(fs[call.mountpoint], fs[RawPath]) IN
            /\ loc' = [loc EXCEPT !.needs_cleanup = needs_cleanup]
            /\ IF needs_cleanup
               THEN /\ pc' = "d_bin"
                    /\ result' = result
                    /\ call' = [call EXCEPT !.nested = TRUE]
                    /\ log' = Append(log, Ev("disconnect", 0))
               ELSE /\ Continue("c_stale")
                    /\ UNCHANGED <<call, log>>
    /\ UNCHANGED <<fs, parents, idfiles, env, remote, start, prev, calls, other, front, fetch, tray>>

\* _check_ssh_server_is_up.  The log records the probe as 255 when the
\* server was classified reachable and as 1 when it was not.
ConnectProbe ==
    /\ pc = "c_probe"
    /\ \E out \in ProbeOutcomes :
       LET rc == out[1]
           stderr == out[2] IN
         /\ loc' = [Ran(SshCommand, NoInput) EXCEPT !.ssh = [rc |-> rc, stderr |-> stderr]]
         /\ log' = Append(log, Ev("ssh", IF ProbeReachable(rc, stderr) THEN 255 ELSE 1))
         /\ IF ~ProbeReachable(rc, stderr)
            THEN Raise(R("NetworkingError", "Could not reach SSH server"))
            ELSE Continue("c_probe")
    /\ UNCHANGED <<fs, parents, idfiles, env, remote, call, start, prev, calls, other, front, fetch, tray>>

\* _get_remote_uid: " ".join(args) with args holding the integer port raises
\* before sftp is run
ConnectRemoteUid ==
    /\ pc = "c_uid"
    /\ IF call.port = "int"
       THEN /\ Raise(R("TypeError", "join"))
            /\ loc' = [loc EXCEPT !.ssh = NoProbe]
            /\ log' = log
       ELSE \E out \in ListingOutcomes :
            LET rc == out[1]
                stdout == out[2] IN
              /\ log' = Append(log, Ev("sftp", rc))
              /\ IF rc # 0
                 THEN /\ Raise(R("InvalidSSHCredentials", "Invalid SSH username or password."))
                      /\ loc' = [Ran(SftpArgs, SftpInput) EXCEPT !.ssh = NoProbe]
                 ELSE LET r == ParseListing(stdout) IN
                      IF r.cls = "uid"
                      THEN /\ loc' = [Ran(SftpArgs, SftpInput) EXCEPT
                                         !.remote_uid = r.uid, !.stdout = stdout,
                                         !.ssh = NoProbe]
                           /\ Continue("c_uid")
                      ELSE /\ Raise(R(r.cls, r.msg))
                           /\ loc' = [Ran(SftpArgs, SftpInput) EXCEPT
                                         !.stdout = stdout, !.ssh = NoProbe]
    /\ UNCHANGED <<fs, parents, idfiles, env, remote, call, start, prev, calls, other, front, fetch, tray>>

\* open(path, "w") and write: an existing file keeps its mode
Written(path, content) ==
    [idfiles EXCEPT ![path] = [content |-> content,
                               mode |-> IF idfiles[path] = NoFile THEN Mode644
                                        ELSE idfiles[path].mode]]

ConnectWriteUid ==
    /\ pc = "c_wuid"
    /\ idfiles' = Written(uidfile_path(call.mountpoint), UIDFILE(LocalUser, loc.remote_uid))
    /\ log' = Append(log, Ev("write_uidfile", 0))
    /\ Continue("c_wuid")
    /\ UNCHANGED <<fs, parents, env, remote, call, loc, start, prev, calls, other, front, fetch, tray>>

ConnectWriteGid ==
    /\ pc = "c_wgid"
    /\ idfiles' = Written(gidfile_path(call.mountpoint), GIDFILE)
    /\ log' = Append(log, Ev("write_gidfile", 0))
    /\ Continue("c_wgid")
    /\ UNCHANGED <<fs, parents, env, remote, call, loc, start, prev, calls, other, front, fetch, tray>>

ConnectChmod ==
    /\ pc = "c_chmod"
    /\ idfiles' = [idfiles EXCEPT ![uidfile_path(call.mountpoint)].mode = Mode600,
                                  ![gidfile_path(call.mountpoint)].mode = Mode600]
    /\ log' = Append(log, Ev("chmod", 0))
    /\ Continue("c_chmod")
    /\ UNCHANGED <<fs, parents, env, remote, call, loc, start, prev, calls, other, front, fetch, tray>>

\* os.makedirs(raw_mount_path, 0o700)
ConnectMkdirRaw ==
    /\ pc = "c_mkraw"
    /\ IF Listed(fs[RawPath])
       THEN /\ log' = Append(log, Ev("makedirs_raw", 1))
            /\ Raise(R("FileExistsError", "makedirs raw"))
            /\ fs' = fs
       ELSE /\ log' = Append(log, Ev("makedirs_raw", 0))
            /\ fs' = [fs EXCEPT ![RawPath] = "dir"]
            /\ Continue("c_mkraw")
    /\ UNCHANGED <<parents, idfiles, env, remote, call, loc, start, prev, calls, other, front, fetch, tray>>

\* Raw mount
ConnectSshfs ==
    /\ pc = "c_sshfs"
    /\ \E rc \in {0, 1} :
         /\ log' = Append(log, Ev("sshfs", rc))
         /\ loc' = Ran(SshfsArgs, NoInput)
         /\ fs' = IF rc = 0 THEN [fs EXCEPT ![RawPath] = "mounted"] ELSE AfterFailure(fs)
         /\ IF SshfsFailed(rc)
            THEN Raise(R("RS3FRuntimeError", "Could not mount raw volume"))
            ELSE Continue("c_sshfs")
    /\ UNCHANGED <<parents, idfiles, env, remote, call, start, prev, calls, other, front, fetch, tray>>

\* Checking for a gocryptfs volume
ConnectMarker ==
    /\ pc = "c_marker"
    /\ log' = Append(log, Ev("marker", IF MarkerPresent THEN 0 ELSE 1))
    /\ IF MarkerPresent
       THEN Continue("c_marker")
       ELSE IF call.allow_init
            THEN pc' = "c_init" /\ result' = result
            ELSE Raise(R("RS3FRuntimeError", "Volume is not initialized"))
    /\ UNCHANGED <<fs, parents, idfiles, env, remote, call, loc, start, prev, calls, other, front, fetch, tray>>

\* a variant of connect that does not look at the exit code of gocryptfs -init
InitFailed_Ignored(rc) == FALSE

\* crypt_init.returncode != 0
InitFailed(rc) == rc # 0

\* gocryptfs -init
ConnectInit ==
    /\ pc = "c_init"
    /\ \E rc \in {0, 1} :
         /\ log' = Append(log, Ev("gocryptfs_init", rc))
         /\ loc' = Ran(InitArgs, NoInput)
         /\ remote' = IF rc = 0
                       THEN [remote EXCEPT !.initialized = (fs[RawPath] = "mounted")]
                       ELSE remote
         /\ IF InitFailed(rc)
            THEN Raise(R("RS3FRuntimeError", "Could not initialize volume"))
            ELSE Continue("c_marker")
    /\ UNCHANGED <<fs, parents, idfiles, env, call, start, prev, calls, other, front, fetch, tray>>

\* password_str = password if isinstance(password, str) else password():
\* a password given as a string is used as it is; the resolver returns a
\* string or None, or raises
ConnectPassword ==
    /\ pc = "c_pw"
    /\ \/ /\ ~remote.steady
          /\ loc' = [loc EXCEPT !.password_str = "given"]
          /\ log' = log
          /\ Continue("c_pw")
       \/ \E out \in ResolverOutcomes :
            /\ log' = Append(log, Ev("password", IF out = "raise" THEN 1 ELSE 0))
            /\ IF out = "raise"
               THEN Raise(R("RuntimeError", "resolver")) /\ loc' = loc
               ELSE /\ loc' = [loc EXCEPT !.password_str = out]
                    /\ Continue("c_pw")
    /\ UNCHANGED <<fs, parents, idfiles, env, remote, call, start, prev, calls, other, front, fetch, tray>>

\* os.makedirs(mountpoint, 0o700): creates the missing parents
ConnectMkdirMnt ==
    /\ pc = "c_mkmnt"
    /\ IF Listed(fs[call.mountpoint])
       THEN /\ log' = Append(log, Ev("makedirs_mnt", 1))
            /\ Raise(R("FileExistsError", "makedirs mountpoint"))
            /\ UNCHANGED <<fs, parents>>
       ELSE /\ log' = Append(log, Ev("makedirs_mnt", 0))
            /\ fs' = [fs EXCEPT ![call.mountpoint] = "dir"]
            /\ parents' = parents \cup {m \in Targets : ParentOf(m) = ParentOf(call.mountpoint)}
            /\ Continue("c_mkmnt")
    /\ UNCHANGED <<idfiles, env, remote, call, loc, start, prev, calls, other, front, fetch, tray>>

\* Actual mount: password_str.encode() is evaluated before the tool is run
ConnectGocryptfs ==
    /\ pc = "c_gocryptfs"
    /\ IF loc.password_str = "None"
       THEN /\ Raise(R("AttributeError", "encode"))
            /\ UNCHANGED <<fs, log, loc>>
       ELSE \E rc \in MountOutcomes :
              /\ log' = Append(log, Ev("gocryptfs", rc))
              /\ loc' = Ran(GocryptfsArgs, GocryptfsInput)
              /\ IF rc # 0
                 THEN Raise(GocryptfsError(rc)) /\ fs' = AfterFailure(fs)
                 ELSE /\ fs' = [fs EXCEPT ![call.mountpoint] = "mounted"]
                      /\ Continue("c_gocryptfs")
    /\ UNCHANGED <<parents, idfiles, env, remote, call, start, prev, calls, other, front, fetch, tray>>

Next ==
    \/ CallConnect
    \/ CallDisconnect
    \/ Interrupt
    \/ DisconnectBin
    \/ UmountList
    \/ UmountFusermount
    \/ UmountRmdir
    \/ ConnectBin
    \/ ConnectStale
    \/ ConnectProbe
    \/ ConnectRemoteUid
    \/ ConnectWriteUid
    \/ ConnectWriteGid
    \/ ConnectChmod
    \/ ConnectMkdirRaw
    \/ ConnectSshfs
    \/ ConnectMarker
    \/ ConnectInit
    \/ ConnectPassword
    \/ ConnectMkdirMnt
    \/ ConnectGocryptfs

Spec == Init /\ [][Next]_vars

\* the same calls on a machine with two volumes
SpecTwo == InitTwo /\ [][Next]_vars

\* The operating system runs the other process: between two statements of
\* one process the other may take any number of its own.  There is no lock
\* in connect or disconnect to prevent it.
Switch ==
    /\ other.pc \notin {"idle", "done"} \/ calls < MaxCalls
    /\ pc' = other.pc
    /\ call' = other.call
    /\ loc' = other.loc
    /\ result' = other.result
    /\ log' = other.log
    /\ start' = other.start
    /\ other' = [pc |-> pc, call |-> call, loc |-> loc, result |-> result,
                 log |-> log, start |-> start]
    /\ UNCHANGED <<fs, parents, idfiles, env, remote, prev, calls, front, fetch, tray>>

\* one of the two processes starts rs3fc mount on the volume, its port taken
\* from the configuration file and --allow-init given
RaceConnect ==
    /\ Begin("connect", "str", TRUE)
    /\ pc' = ConnectSteps[1]
    /\ UNCHANGED <<front, tray>>

NextRace ==
    \/ RaceConnect
    \/ Switch
    \/ DisconnectBin
    \/ UmountList
    \/ UmountFusermount
    \/ UmountRmdir
    \/ ConnectBin
    \/ ConnectStale
    \/ ConnectProbe
    \/ ConnectRemoteUid
    \/ ConnectWriteUid
    \/ ConnectWriteGid
    \/ ConnectChmod
    \/ ConnectMkdirRaw
    \/ ConnectSshfs
    \/ ConnectMarker
    \/ ConnectInit
    \/ ConnectPassword
    \/ ConnectMkdirMnt
    \/ ConnectGocryptfs

\* two processes calling connect and disconnect on the same volume
SpecRace == InitRace /\ [][NextRace]_vars

(***************************************************************************)
(* rs3fc.passwordfetchers: the registry of password fetchers and           *)
(* fetch_password.                                                         *)
(***************************************************************************)
\* the classes decorated with @register_fetcher, in the order of the file
FetcherClasses == <<"StdinPasswordFetcher", "PassPasswordFetcher", "KeepassxcPasswordFetcher">>

\* the class attribute priority; ABCPasswordFetcher gives -1 to a class
\* that does not set it
Priority(class_) ==
    CASE class_ = "PassPasswordFetcher" -> 1
      [] class_ = "KeepassxcPasswordFetcher" -> 1
      [] OTHER -> -1

\* list.sort(key=priority, reverse=True) is stable: each element goes after
\* the elements of at least its priority that were before it
RECURSIVE InsertByPriority(_, _)
InsertByPriority(sorted, class_) ==
    IF sorted = <<>>
    THEN <<class_>>
    ELSE IF Priority(Head(sorted)) >= Priority(class_)
         THEN <<Head(sorted)>> \o InsertByPriority(Tail(sorted), class_)
         ELSE <<class_>> \o sorted

RECURSIVE SortedByPriority(_)
SortedByPriority(classes) ==
    IF classes = <<>>
    THEN <<>>
    ELSE InsertByPriority(SortedByPriority(SubSeq(classes, 1, Len(classes) - 1)),
                          classes[Len(classes)])

\* a variant of register_fetcher that appends and does not sort
register_fetcher_Unsorted(registry, class_) == Append(registry, class_)

register_fetcher(registry, class_) == SortedByPriority(Append(registry, class_))

\* What a backend can do.  StdinPasswordFetcher has no __init__ and getpass
\* returns a string; the other two raise RuntimeError in __init__ when their
\* tool is missing and return None when it exits nonzero.  "raise" is an
\* exception derived from Exception.
ConstructOutcomes(class_) ==
    IF class_ = "StdinPasswordFetcher" THEN {"ok"} ELSE {"ok", "raise"}
LookupOutcomes(class_) ==
    IF class_ = "StdinPasswordFetcher" THEN {"password", "raise"}
    ELSE {"password", "None", "raise"}
PasswordOf(class_) == "password of " \o class_

Tried(class_, step, out) == [cls |-> class_, step |-> step, out |-> out]

\* the machine of fetch_password calls: nothing is mounted, nothing is called
InitFetch ==
    /\ fs = [p \in Paths |-> "absent"]
    /\ parents = Mountpoints
    /\ idfiles = [p \in IdPaths |-> NoFile]
    /\ env = [path_set |-> TRUE, xdg_set |-> TRUE, bins |-> Tools]
    /\ remote = [initialized |-> TRUE, steady |-> TRUE]
    /\ pc = "idle"
    /\ call = NoCall
    /\ loc = NoLocals
    /\ result = Pending
    /\ log = <<>>
    /\ start = [fs |-> fs, parents |-> parents, idfiles |-> idfiles]
    /\ prev = [op |-> "none", result |-> Pending, start |-> [fs |-> fs, parents |-> parents, idfiles |-> idfiles]]
    /\ calls = 0
    /\ other = [pc |-> "idle", call |-> NoCall, loc |-> NoLocals, result |-> Pending,
                log |-> <<>>, start |-> [fs |-> fs, parents |-> parents, idfiles |-> idfiles]]
    /\ front = NoFront
    /\ fetch = [NoFetch EXCEPT !.todo = FetcherClasses, !.phase = "import"]
    /\ tray = NoTray

FetchFrame ==
    UNCHANGED <<fs, parents, idfiles, env, remote, pc, call, loc, result, log, start, prev,
                calls, other, front, tray>>

\* the import of the module runs the decorators from top to bottom
RegisterFetcher ==
    /\ fetch.phase = "import"
    /\ fetch.todo # <<>>
    /\ fetch' = [fetch EXCEPT !.registry = register_fetcher(@, Head(fetch.todo)),
                              !.todo = Tail(@)]
    /\ FetchFrame

\* the head of the for loop: the next fetcher class, or the end of the list
LoopOn(f, i) ==
    IF i > Len(f.registry)
    THEN [f EXCEPT !.phase = "done", !.i = i,
                   !.result = R("RuntimeError", "Couldn't determine the password for the gocryptfs")]
    ELSE [f EXCEPT !.phase = "construct", !.i = i]

FetchCall ==
    /\ fetch.phase \in {"import", "done"}
    /\ fetch.todo = <<>>
    /\ fetch.n < MaxCalls
    /\ \E port \in {"none", "int"} :
         fetch' = LoopOn([fetch EXCEPT !.n = @ + 1, !.port = port, !.trace = <<>>,
                                       !.result = Pending], 1)
    /\ FetchFrame

\* fetcher = PasswordFetcher()
FetchConstruct ==
    /\ fetch.phase = "construct"
    /\ LET class_ == fetch.registry[fetch.i] IN
       \E out \in ConstructOutcomes(class_) :
         LET tried == [fetch EXCEPT !.trace = Append(@, Tried(class_, "construct", out))] IN
         fetch' = IF out = "raise"
                  THEN LoopOn(tried, fetch.i + 1)
                  ELSE [tried EXCEPT !.phase = "get_password"]
    /\ FetchFrame

\* result = fetcher.get_password(name, host, port)
FetchGetPassword ==
    /\ fetch.phase = "get_password"
    /\ LET class_ == fetch.registry[fetch.i] IN
       \E out \in LookupOutcomes(class_) :
         LET tried == [fetch EXCEPT !.trace = Append(@, Tried(class_, "get_password", out))] IN
         fetch' = IF out = "password"
                  THEN [tried EXCEPT !.phase = "done", !.result = R("ok", PasswordOf(class_))]
                  ELSE LoopOn(tried, fetch.i + 1)
    /\ FetchFrame

NextFetch ==
    \/ RegisterFetcher
    \/ FetchCall
    \/ FetchConstruct
    \/ FetchGetPassword

SpecFetch == InitFetch /\ [][NextFetch]_vars

(***************************************************************************)
(* The front ends: rs3fc (the installed command), python -m rs3fc and the  *)
(* tray.  Each calls connect and reacts to its outcome.                    *)
(***************************************************************************)
Callers == {"rs3fc", "rs3fc.__main__", "rs3ftray"}
CommandLines == {"rs3fc", "rs3fc.__main__"}

\* the port is int(match["port"]), the string of the configuration file or
\* None; the tray converts the setting with int(port)
PortsOf(caller) == IF caller \in CommandLines THEN {"none", "int", "str"} ELSE {"none", "int"}
\* args.allow_init; the tray passes allow_init=False
AllowInitOf(caller) == IF caller \in CommandLines THEN BOOLEAN ELSE {FALSE}

\* the except clauses around the call of connect
Catches(caller, cls) ==
    CASE caller = "rs3fc" -> TRUE                       \* RS3FRuntimeError, Exception, KeyboardInterrupt
      [] caller = "rs3fc.__main__" -> cls # "KeyboardInterrupt"     \* Exception
      [] OTHER -> FALSE                                 \* toggle_mount has no try

\* the exit status of the interpreter: sys.exit(1), the end of main, or an
\* exception nobody caught
NonZero(status) == status \in {"1", "uncaught"}

\* The machine as an earlier session, whose call counts as the first of the
\* run, left it.
InitFront ==
    /\ fs \in [Paths -> PathStates]
    /\ \A m \in Mountpoints : fs[get_raw_mount_path(m)] # "nonempty"
    /\ parents \in SUBSET Mountpoints
    /\ \A m \in Mountpoints : Listed(fs[m]) => m \in parents
    /\ \E leftover \in BOOLEAN :
         idfiles = [p \in IdPaths |->
                      IF ~leftover THEN NoFile
                      ELSE IF p \in {uidfile_path(m) : m \in Mountpoints}
                           THEN [content |-> UIDFILE(LocalUser, 1001), mode |-> Mode600]
                           ELSE [content |-> GIDFILE, mode |-> Mode600]]
    /\ env \in Envs
    /\ remote \in [initialized : BOOLEAN, steady : {FALSE}]
    /\ pc = "idle"
    /\ call = NoCall
    /\ loc = NoLocals
    /\ result = Pending
    /\ log = <<>>
    /\ start = [fs |-> fs, parents |-> parents, idfiles |-> idfiles]
    /\ prev = [op |-> "none", result |-> Pending, start |-> [fs |-> fs, parents |-> parents, idfiles |-> idfiles]]
    /\ calls = 1
    /\ other = [pc |-> "idle", call |-> NoCall, loc |-> NoLocals, result |-> Pending,
                log |-> <<>>, start |-> [fs |-> fs, parents |-> parents, idfiles |-> idfiles]]
    /\ front = NoFront
    /\ fetch = NoFetch
    /\ tray = NoTray

FrontFrame == UNCHANGED <<fs, parents, idfiles, env, remote, calls, other, fetch, tray>>

\* rs3fc mount VOLUME, or the user checks the volume in the tray menu
FrontMount ==
    /\ front.phase \notin {"connect", "cleanup"}
    /\ \E caller \in Callers :
         /\ \E port \in PortsOf(caller), allow_init \in AllowInitOf(caller) :
              Begin("connect", port, allow_init)
         /\ front' = [caller |-> caller, mountpoint |-> call'.mountpoint, phase |-> "connect",
                      failure |-> "", cleanup |-> FALSE, status |-> "none"]
    /\ tray' = tray
    /\ pc' = ConnectSteps[1]

\* connect returned: the command prints "Mounted" and ends, the tray records
\* the volume in MOUNTED_VOLUMES
FrontMounted ==
    /\ front.phase = "connect" /\ pc = "done" /\ result = Ok
    /\ front' = IF front.caller \in CommandLines
                THEN [front EXCEPT !.phase = "exited", !.status = "0"]
                ELSE [front EXCEPT !.phase = "returned"]
    /\ UNCHANGED <<pc, call, loc, result, log, start, prev>>
    /\ FrontFrame

\* an except clause caught the exception: "Cleaning up." and disconnect(mountpoint)
FrontCleanup ==
    /\ front.phase = "connect" /\ pc = "done" /\ result # Ok
    /\ Catches(front.caller, result.cls)
    /\ front' = [front EXCEPT !.phase = "cleanup", !.failure = result.cls, !.cleanup = TRUE]
    /\ pc' = "d_bin"
    /\ call' = [call EXCEPT !.op = "disconnect", !.port = "none", !.allow_init = FALSE,
                            !.nested = FALSE, !.li = 0]
    /\ prev' = [op |-> call.op, result |-> result, start |-> start]
    /\ start' = Snapshot
    /\ loc' = NoLocals
    /\ result' = Pending
    /\ log' = <<>>
    /\ FrontFrame

\* no except clause for the exception: it leaves main, or the slot of the tray
FrontPropagate ==
    /\ front.phase = "connect" /\ pc = "done" /\ result # Ok
    /\ ~Catches(front.caller, result.cls)
    /\ front' = IF front.caller \in CommandLines
                THEN [front EXCEPT !.phase = "exited", !.failure = result.cls,
                                   !.status = "uncaught"]
                ELSE [front EXCEPT !.phase = "propagated", !.failure = result.cls]
    /\ UNCHANGED <<pc, call, loc, result, log, start, prev>>
    /\ FrontFrame

\* after the cleanup: sys.exit(1), unless disconnect raised out of the except clause
FrontExit ==
    /\ front.phase = "cleanup" /\ pc = "done"
    /\ front' = [front EXCEPT !.phase = "exited",
                              !.status = IF result = Ok THEN "1" ELSE "uncaught"]
    /\ UNCHANGED <<pc, call, loc, result, log, start, prev>>
    /\ FrontFrame

NextFront ==
    \/ FrontMount
    \/ FrontMounted
    \/ FrontCleanup
    \/ FrontPropagate
    \/ FrontExit
    \/ Interrupt
    \/ DisconnectBin
    \/ UmountList
    \/ UmountFusermount
    \/ UmountRmdir
    \/ ConnectBin
    \/ ConnectStale
    \/ ConnectProbe
    \/ ConnectRemoteUid
    \/ ConnectWriteUid
    \/ ConnectWriteGid
    \/ ConnectChmod
    \/ ConnectMkdirRaw
    \/ ConnectSshfs
    \/ ConnectMarker
    \/ ConnectInit
    \/ ConnectPassword
    \/ ConnectMkdirMnt
    \/ ConnectGocryptfs

SpecFront == InitFront /\ [][NextFront]_vars

(***************************************************************************)
(* The tray.  tray.volumes is the saved list settings.value("volumes"),    *)
(* tray.rows the items of the list widget of the settings window,          *)
(* tray.checked the volumes whose menu action is checked; the menu has one *)
(* action per saved volume.  Qt runs one slot at a time: tray.slot is the  *)
(* slot that is waiting for its connect or disconnect to return.           *)
(* tray.open records, for the properties, the volumes whose last connect   *)
(* returned and for which no disconnect has returned since.                *)
(***************************************************************************)
Volumes == {"vol", "other"}
\* os.path.join(os.path.expanduser(...), match["volume"])
MountpointOf(volume) == "/mnt/" \o volume

Range(seq) == {seq[k] : k \in DOMAIN seq}
Without(seq, x) == SelectSeq(seq, LAMBDA y : y # x)
\* MOUNTED_VOLUMES.pop(volume)
Popped(dict, volume) == [v \in (DOMAIN dict) \ {volume} |-> dict[v]]
\* MOUNTED_VOLUMES[volume] = mountpoint
Stored(dict, volume, mountpoint) ==
    [v \in (DOMAIN dict) \cup {volume} |-> IF v = volume THEN mountpoint ELSE dict[v]]

\* The tray starts on a machine where nothing is mounted, with the volumes
\* saved by an earlier run.
InitTray ==
    /\ fs = [p \in AllMountpoints \cup {get_raw_mount_path(m) : m \in AllMountpoints} |-> "absent"]
    /\ parents = AllMountpoints
    /\ idfiles = [p \in {uidfile_path(m) : m \in AllMountpoints}
                        \cup {gidfile_path(m) : m \in AllMountpoints} |-> NoFile]
    /\ env = [path_set |-> TRUE, xdg_set |-> TRUE, bins |-> Tools]
    /\ remote \in [initialized : BOOLEAN, steady : {TRUE}]
    /\ pc = "idle"
    /\ call = NoCall
    /\ loc = NoLocals
    /\ result = Pending
    /\ log = <<>>
    /\ start = [fs |-> fs, parents |-> parents, idfiles |-> idfiles]
    /\ prev = [op |-> "none", result |-> Pending, start |-> [fs |-> fs, parents |-> parents, idfiles |-> idfiles]]
    /\ calls = 0
    /\ other = [pc |-> "idle", call |-> NoCall, loc |-> NoLocals, result |-> Pending,
                log |-> <<>>, start |-> [fs |-> fs, parents |-> parents, idfiles |-> idfiles]]
    /\ front = NoFront
    /\ fetch = NoFetch
    /\ \E saved \in {<<>>, <<"vol">>, <<"vol", "other">>} :
         tray = [NoTray EXCEPT !.volumes = saved, !.rows = saved]

\* no call of connect or disconnect is made
CallFrame ==
    UNCHANGED <<pc, call, loc, result, log, start, prev, calls, fs, parents, idfiles, env,
                remote, other, fetch>>
SlotIdle == tray.slot = NoSlot

\* reload_volumes: the actions are removed and made anew, each unchecked
reload_volumes(t) == [t EXCEPT !.checked = {}]

\* SettingsWindow.add_volume, for a name that is not in the saved list
add_volume ==
    /\ SlotIdle
    /\ \E volume \in Volumes \ Range(tray.volumes) :
         tray' = reload_volumes([tray EXCEPT !.rows = Append(@, volume),
                                             !.volumes = Append(@, volume)])
    /\ CallFrame
    /\ front' = front

\* The user clicks the action of a volume: its checked state flips and
\* toggled(checked) calls toggle_mount(volume, checked).
toggle_mount ==
    /\ SlotIdle
    /\ \E volume \in Range(tray.volumes) :
         LET mount == volume \notin tray.checked
             flipped == [tray EXCEPT !.checked = IF mount THEN @ \cup {volume}
                                                 ELSE @ \ {volume},
                                     !.error = ""] IN
         IF volume \in DOMAIN tray.MOUNTED_VOLUMES /\ mount
         THEN /\ tray' = [flipped EXCEPT !.error = "Volume is already mounted"]
              /\ CallFrame
         ELSE IF volume \notin DOMAIN tray.MOUNTED_VOLUMES /\ ~mount
         THEN /\ tray' = flipped
              /\ CallFrame
         ELSE IF mount
         THEN /\ \E port \in PortsOf("rs3ftray"), allow_init \in AllowInitOf("rs3ftray") :
                   Begin("connect", port, allow_init)
              /\ call'.mountpoint = MountpointOf(volume)
              /\ pc' = ConnectSteps[1]
              /\ tray' = [flipped EXCEPT !.slot = [NoSlot EXCEPT !.op = "mount",
                                                                 !.volume = volume]]
         ELSE /\ Begin("disconnect", "none", FALSE)
              /\ call'.mountpoint = tray.MOUNTED_VOLUMES[volume]
              /\ pc' = "d_bin"
              /\ tray' = [flipped EXCEPT
                            !.MOUNTED_VOLUMES = Popped(@, volume),
                            !.slot = [NoSlot EXCEPT !.op = "umount", !.volume = volume]]
    /\ front' = front

\* connect returned or raised: MOUNTED_VOLUMES[volume] = mountpoint, or the
\* exception leaves the slot
MountReturned ==
    /\ tray.slot.op = "mount" /\ pc = "done"
    /\ LET volume == tray.slot.volume IN
       tray' = IF result = Ok
               THEN [tray EXCEPT !.MOUNTED_VOLUMES = Stored(@, volume, call.mountpoint),
                                 !.open = @ \cup {volume},
                                 !.slot = NoSlot]
               ELSE [tray EXCEPT !.open = @ \ {volume}, !.slot = NoSlot,
                                 !.error = result.cls]
    /\ CallFrame
    /\ front' = front

\* disconnect(MOUNTED_VOLUMES.pop(volume)) of toggle_mount returned or raised
UmountReturned ==
    /\ tray.slot.op = "umount" /\ pc = "done"
    /\ tray' = IF result = Ok
               THEN [tray EXCEPT !.open = @ \ {tray.slot.volume}, !.slot = NoSlot]
               ELSE [tray EXCEPT !.slot = NoSlot, !.error = result.cls]
    /\ CallFrame
    /\ front' = front

\* SettingsWindow.delete_selected: the selected rows, last one first
delete_selected ==
    /\ SlotIdle
    /\ \E selected \in (SUBSET DOMAIN tray.rows) \ {{}} :
         LET last_first == [k \in 1..Cardinality(selected) |->
                              CHOOSE i \in selected :
                                Cardinality({j \in selected : j > i}) = k - 1] IN
         tray' = [tray EXCEPT !.error = "",
                              !.slot = [op |-> "delete", volume |-> "",
                                        todo |-> [k \in DOMAIN last_first |->
                                                    tray.rows[last_first[k]]],
                                        volumes |-> tray.volumes]]
    /\ CallFrame
    /\ front' = front

\* one turn of the loop of delete_selected, up to its disconnect
DeleteRow ==
    /\ tray.slot.op = "delete" /\ tray.slot.volume = "" /\ tray.slot.todo # <<>>
    /\ LET row == Head(tray.slot.todo)
           taken == [tray EXCEPT !.rows = Without(@, row),
                                 !.slot.todo = Tail(@),
                                 !.slot.volumes = Without(@, row)] IN
       IF row \in DOMAIN tray.MOUNTED_VOLUMES
       THEN /\ Begin("disconnect", "none", FALSE)
            /\ call'.mountpoint = tray.MOUNTED_VOLUMES[row]
            /\ pc' = "d_bin"
            /\ tray' = [taken EXCEPT !.MOUNTED_VOLUMES = Popped(@, row),
                                     !.slot.volume = row]
       ELSE /\ tray' = taken
            /\ CallFrame
    /\ front' = front

\* the disconnect of delete_selected returned, or raised out of the loop
DeleteReturned ==
    /\ tray.slot.op = "delete" /\ tray.slot.volume # "" /\ pc = "done"
    /\ tray' = IF result = Ok
               THEN [tray EXCEPT !.open = @ \ {tray.slot.volume}, !.slot.volume = ""]
               ELSE [tray EXCEPT !.slot = NoSlot, !.error = result.cls]
    /\ CallFrame
    /\ front' = front

\* after the loop: settings.setValue("volumes", volumes) and reload_volumes()
DeleteSaved ==
    /\ tray.slot.op = "delete" /\ tray.slot.volume = "" /\ tray.slot.todo = <<>>
    /\ tray' = reload_volumes([tray EXCEPT !.volumes = tray.slot.volumes, !.slot = NoSlot])
    /\ CallFrame
    /\ front' = front

NextTray ==
    \/ add_volume
    \/ toggle_mount
    \/ MountReturned
    \/ UmountReturned
    \/ delete_selected
    \/ DeleteRow
    \/ DeleteReturned
    \/ DeleteSaved
    \/ DisconnectBin
    \/ UmountList
    \/ UmountFusermount
    \/ UmountRmdir
    \/ ConnectBin
    \/ ConnectStale
    \/ ConnectProbe
    \/ ConnectRemoteUid
    \/ ConnectWriteUid
    \/ ConnectWriteGid
    \/ ConnectChmod
    \/ ConnectMkdirRaw
    \/ ConnectSshfs
    \/ ConnectMarker
    \/ ConnectPassword
    \/ ConnectMkdirMnt
    \/ ConnectGocryptfs

SpecTray == InitTray /\ [][NextTray]_vars

(***************************************************************************)
(* Vocabulary of the properties.                                           *)
(***************************************************************************)
Mnt == call.mountpoint
LogOps == [i \in DOMAIN log |-> log[i].op]
Did(op) == \E i \in DOMAIN log : log[i].op = op
DidRc(op, rc) == \E i \in DOMAIN log : log[i] = Ev(op, rc)
Count(op) == Cardinality({i \in DOMAIN log : log[i].op = op})
EnvOk == env.path_set /\ env.xdg_set /\ env.bins = Tools
InConnect == call.op = "connect"
InDisconnect == call.op = "disconnect"
Finished == pc = "done"
\* the step just taken appended this operation to the log
JustDid(ops) == Len(log') = Len(log) + 1 /\ log'[Len(log')].op \in ops

(***************************************************************************)
(* C1: within one connect call gocryptfs is invoked only after sshfs was   *)
(* invoked in that call and exited 0; a nonzero sshfs exit is the last     *)
(* thing the call does: it raises RS3FRuntimeError with no marker probe,   *)
(* no password resolution, no mountpoint directory and no gocryptfs.       *)
(***************************************************************************)
C1_EncryptedOnlyAfterRaw ==
    InConnect =>
      /\ \A i \in DOMAIN log :
           log[i].op = "gocryptfs" => \E j \in 1..(i - 1) : log[j] = Ev("sshfs", 0)
      /\ \A j \in DOMAIN log :
           (log[j].op = "sshfs" /\ log[j].rc # 0) =>
             /\ j = Len(log)
             /\ Finished
             /\ result.cls = "RS3FRuntimeError"
             /\ ~Did("marker") /\ ~Did("gocryptfs_init") /\ ~Did("password")
             /\ ~Did("makedirs_mnt") /\ ~Did("gocryptfs")
             /\ fs[RawPath] = "dir"

C1_Witness == InConnect /\ Did("gocryptfs") /\ DidRc("sshfs", 0)

(***************************************************************************)
(* C2: no step of disconnect runs fusermount on the raw mount path, or     *)
(* removes the raw directory, while the mountpoint is still a mount.       *)
(***************************************************************************)
C2_ReverseTeardown ==
    [][JustDid({"fusermount_raw", "rmdir_raw"}) => fs[Mnt] \notin {"mounted", "broken"}]_vars

C2_Witness ==
    /\ DidRc("fusermount_mnt", 0)
    /\ DidRc("fusermount_raw", 0)
    /\ start.fs[Mnt] = "mounted"
    /\ start.fs[RawPath] = "mounted"

(***************************************************************************)
(* C3: a nonzero fusermount exit on the mountpoint is the last thing the   *)
(* call does: RS3FRuntimeError is raised, fusermount is not run on the raw *)
(* path, and neither the raw directory nor the mountpoint is removed.      *)
(***************************************************************************)
C3_AbortBeforeRaw ==
    \A i \in DOMAIN log :
      (log[i].op = "fusermount_mnt" /\ log[i].rc # 0) =>
        /\ i = Len(log)
        /\ Finished
        /\ result.cls = "RS3FRuntimeError"
        /\ ~Did("fusermount_raw") /\ ~Did("rmdir_raw") /\ ~Did("rmdir_mnt")
        /\ fs = start.fs

C3_Witness == InDisconnect /\ DidRc("fusermount_mnt", 1) /\ Listed(fs[RawPath])

(***************************************************************************)
(* More vocabulary: how a call went.                                       *)
(***************************************************************************)
\* the call ended in an exception of the reachability probe or the owner lookup
FailedAtPreflight ==
    /\ InConnect
    /\ Finished
    /\ \/ result.cls \in {"NetworkingError", "InvalidSSHCredentials",
                          "TypeError", "IndexError", "ValueError"}
       \/ result = R("RS3FRuntimeError", "not a valid volume")

StartAbsent == start.fs[Mnt] = "absent" /\ start.fs[RawPath] = "absent"
StartListed == Listed(start.fs[Mnt]) \/ Listed(start.fs[RawPath])
StartExists == Exists(start.fs[Mnt]) \/ Exists(start.fs[RawPath])
NowAbsent == fs[Mnt] = "absent" /\ fs[RawPath] = "absent"
UnmountToolFailed == \E i \in DOMAIN log :
    log[i].op \in {"fusermount_mnt", "fusermount_raw"} /\ log[i].rc # 0
UnmountToolRan == Did("fusermount_mnt") \/ Did("fusermount_raw")
\* every external tool run so far succeeded (ssh succeeds by being denied),
\* the listing named the owner, the volume was found initialized, the
\* resolver returned a string
AllSucceeded ==
    /\ result.cls # "KeyboardInterrupt"
    /\ \A i \in DOMAIN log : log[i].rc = 0 \/ log[i] = Ev("ssh", 255)
    /\ Did("sftp") => loc.remote_uid > 0
    /\ loc.password_str # "None"
CreatedOrWrote ==
    \/ Did("write_uidfile") \/ Did("write_gidfile") \/ Did("chmod")
    \/ Did("makedirs_raw") \/ Did("makedirs_mnt")
    \/ Did("sshfs") \/ Did("gocryptfs") \/ Did("gocryptfs_init")

(***************************************************************************)
(* C4 as stated: when the probe or the lookup fails, the disk is as it was *)
(* when connect was called, whatever that state was.                       *)
(***************************************************************************)
C4_NoMutationFromAnyStart ==
    ( /\ InConnect
      /\ Finished
      /\ \/ result.cls \in {"NetworkingError", "InvalidSSHCredentials"}
         \/ result = R("RS3FRuntimeError", "not a valid volume") )
    => (Snapshot = start /\ ~UnmountToolRan)

(***************************************************************************)
(* C4, amended: when the probe or the lookup fails, connect has created no *)
(* directory, written no file and mounted nothing; the only changes on     *)
(* disk are those of the stale-state cleanup, which ran before the probe   *)
(* if the mountpoint or the raw path existed, and removed them.  If        *)
(* neither existed, the disk is as it was.                                 *)
(***************************************************************************)
C4_PreflightFailureMutatesOnlyByCleanup ==
    FailedAtPreflight =>
      /\ ~CreatedOrWrote
      /\ idfiles = start.idfiles
      /\ parents = start.parents
      /\ \A p \in {Mnt, RawPath} :
           fs[p] # start.fs[p] => (StartExists /\ Did("disconnect") /\ fs[p] = "absent")
      /\ ~StartExists => (Snapshot = start /\ ~UnmountToolRan /\ ~Did("disconnect"))

C4_Witness ==
    /\ FailedAtPreflight
    /\ result.cls = "NetworkingError"
    /\ start.fs[Mnt] = "mounted"
    /\ fs[Mnt] = "absent"

(***************************************************************************)
(* C5: a connect that found the mountpoint or the raw path on disk (in any *)
(* condition, a broken mount included) has, by the time it probes the      *)
(* server or creates the raw directory, called disconnect exactly once,    *)
(* right after the binary check.                                           *)
(***************************************************************************)
C5_StaleStateAlwaysCleaned ==
    (InConnect /\ StartListed /\ (Did("ssh") \/ Did("makedirs_raw"))) =>
      /\ Count("disconnect") = 1
      /\ LogOps[1] = "bincheck"
      /\ LogOps[2] = "disconnect"

(***************************************************************************)
(* C6: after a connect that began with neither path on disk and failed or  *)
(* was interrupted, a disconnect whose fusermount runs all exit 0 returns  *)
(* normally and leaves neither path on disk.                               *)
(***************************************************************************)
C6_DisconnectUnwindsFailedConnect ==
    ( /\ InDisconnect
      /\ Finished
      /\ EnvOk
      /\ prev.op = "connect"
      /\ prev.result # Ok
      /\ prev.start.fs[Mnt] = "absent"
      /\ prev.start.fs[RawPath] = "absent"
      /\ ~UnmountToolFailed )
    => (result = Ok /\ NowAbsent)

(***************************************************************************)
(* C7: connect of alice with the integer port 2222 on /mnt/vol, from a     *)
(* clean state, every tool succeeding and the owner being 1000, returns    *)
(* with both layers mounted and the identity files as specified.           *)
(***************************************************************************)
C7_EndToEnd ==
    ( /\ InConnect
      /\ Finished
      /\ EnvOk
      /\ call.target_user = "alice"
      /\ call.port = "int"
      /\ Mnt = "/mnt/vol"
      /\ StartAbsent
      /\ AllSucceeded
      /\ Did("sftp") => loc.remote_uid = 1000 )
    => /\ result = Ok
       /\ fs[RawPath] = "mounted"
       /\ fs[Mnt] = "mounted"
       /\ idfiles[uidfile_path(Mnt)] = [content |-> UIDFILE("alice", 1000), mode |-> Mode600]
       /\ idfiles[gidfile_path(Mnt)] = [content |-> GIDFILE, mode |-> Mode600]

(***************************************************************************)
(* C8: a connect that began with neither path on disk never calls          *)
(* disconnect, and when every tool succeeds it returns having done exactly *)
(* the steps of the sequence, once each, in order.                         *)
(***************************************************************************)
C8_ExactSequence ==
    (InConnect /\ StartAbsent) =>
      /\ ~Did("disconnect")
      /\ (Finished /\ EnvOk /\ AllSucceeded) =>
           /\ result = Ok
           /\ LogOps = <<"bincheck", "ssh", "sftp", "write_uidfile", "write_gidfile",
                         "chmod", "makedirs_raw", "sshfs", "marker", "password",
                         "makedirs_mnt", "gocryptfs">>

(***************************************************************************)
(* C9: with fusermount installed and the environment set, and each layer   *)
(* absent, a plain directory or mounted, disconnect raises only if a       *)
(* fusermount run exited nonzero.                                          *)
(***************************************************************************)
C9_RaisesOnlyOnUnmountFailure ==
    ( /\ InDisconnect
      /\ Finished
      /\ EnvOk
      /\ start.fs[Mnt] \in {"absent", "dir", "mounted"}
      /\ start.fs[RawPath] \in {"absent", "dir", "mounted"}
      /\ result # Ok )
    => UnmountToolFailed

(***************************************************************************)
(* C10: disconnect of a mountpoint of which neither path is on disk runs   *)
(* fusermount zero times, changes nothing on disk and does not raise.      *)
(***************************************************************************)
C10_NoopWhenAbsent ==
    (InDisconnect /\ Finished /\ EnvOk /\ StartAbsent) =>
      /\ result = Ok
      /\ ~UnmountToolRan
      /\ Snapshot = start

(***************************************************************************)
(* More vocabulary: the teardown of one layer.                             *)
(***************************************************************************)
Layers == {"mnt", "raw"}
PathOf(layer) == IF layer = "mnt" THEN Mnt ELSE RawPath
\* disconnect, called by the user or by connect for its stale-state cleanup
Disconnecting == InDisconnect \/ (InConnect /\ call.nested)
\* the teardown of the layer got as far as its os.rmdir
RmdirTried(layer) == Did("rmdir_" \o layer)
PlainDirectory(st) == st \in {"dir", "nonempty"}

(***************************************************************************)
(* C11 as stated: a layer whose path is a directory and not a mount (empty *)
(* or not) is removed by its teardown, and fusermount is not run for it.   *)
(***************************************************************************)
C11_AnyDirectoryRemoved ==
    \A layer \in Layers :
      (Disconnecting /\ PlainDirectory(start.fs[PathOf(layer)]) /\ RmdirTried(layer)) =>
        /\ fs[PathOf(layer)] = "absent"
        /\ ~Did("fusermount_" \o layer)

(***************************************************************************)
(* C11, amended: fusermount is never run for a layer whose path is a       *)
(* directory and not a mount; the teardown of such a layer goes straight   *)
(* to os.rmdir, which removes the directory if it is empty; a directory    *)
(* that is not empty stays and the call ends in OSError.                   *)
(***************************************************************************)
C11_EmptyDirectoryRemovedWithoutUnmount ==
    \A layer \in Layers :
      (Disconnecting /\ PlainDirectory(start.fs[PathOf(layer)])) =>
        /\ ~Did("fusermount_" \o layer)
        /\ (InDisconnect /\ Finished /\ result = Ok) => RmdirTried(layer)
        /\ RmdirTried(layer) =>
             IF start.fs[PathOf(layer)] = "dir"
             THEN fs[PathOf(layer)] = "absent" /\ DidRc("rmdir_" \o layer, 0)
             ELSE /\ fs[PathOf(layer)] = "nonempty"
                  /\ Finished
                  /\ result.cls = "OSError"

C11_Witness ==
    /\ InDisconnect
    /\ Finished
    /\ result = Ok
    /\ start.fs[Mnt] = "dir"
    /\ start.fs[RawPath] = "dir"
    /\ NowAbsent
    /\ ~UnmountToolRan

(***************************************************************************)
(* C12: connect does not roll back.  When the gocryptfs mount exits        *)
(* nonzero connect raises InvalidPassword or RS3FRuntimeError with the raw *)
(* layer still mounted and the mountpoint directory still there; when      *)
(* sshfs exits nonzero the raw directory and the identity files written by *)
(* the call are still there.                                               *)
(***************************************************************************)
LastEntry == log[Len(log)]
MountToolFailed(tool) == log # <<>> /\ LastEntry.op = tool /\ LastEntry.rc # 0
IdFilesOfCall ==
    /\ idfiles[uidfile_path(Mnt)] = [content |-> UIDFILE(LocalUser, loc.remote_uid), mode |-> Mode600]
    /\ idfiles[gidfile_path(Mnt)] = [content |-> GIDFILE, mode |-> Mode600]

C12_NoRollback ==
    /\ (InConnect /\ MountToolFailed("gocryptfs")) =>
         /\ Finished
         /\ result.cls \in {"InvalidPassword", "RS3FRuntimeError"}
         /\ fs[RawPath] = "mounted"
         /\ fs[Mnt] = "dir"
         /\ IdFilesOfCall
    /\ (InConnect /\ MountToolFailed("sshfs")) =>
         /\ Finished
         /\ result.cls = "RS3FRuntimeError"
         /\ fs[RawPath] = "dir"
         /\ IdFilesOfCall

C12_Witness ==
    /\ InConnect
    /\ MountToolFailed("gocryptfs")
    /\ result.cls = "InvalidPassword"
    /\ fs[RawPath] = "mounted"
    /\ fs[Mnt] = "dir"

(***************************************************************************)
(* C13: the exit code of the gocryptfs mount decides how connect ends:     *)
(* 0 returns normally, 12 and 22 raise InvalidPassword, every other code   *)
(* raises RS3FRuntimeError itself, not InvalidPassword.                    *)
(***************************************************************************)
C13_ExitCodeClassification ==
    (InConnect /\ log # <<>> /\ LastEntry.op = "gocryptfs") =>
      /\ Finished
      /\ LastEntry.rc = 0 => result = Ok
      /\ LastEntry.rc \in {12, 22} => result.cls = "InvalidPassword"
      /\ LastEntry.rc \notin {0, 12, 22} => result.cls = "RS3FRuntimeError"

C13_Witness ==
    /\ InConnect
    /\ Finished
    /\ DidRc("gocryptfs", 22)
    /\ result.cls = "InvalidPassword"

(***************************************************************************)
(* C14: the marker probe reports gocryptfs.conf as it is on the volume.    *)
(* When it is absent and allow_init is false, connect raises "Volume is    *)
(* not initialized" at once: no init run, no password resolution, no       *)
(* mountpoint directory, no gocryptfs mount.  When it is absent and        *)
(* allow_init is true, gocryptfs -init is run, and a nonzero exit of it    *)
(* raises with none of the later steps done.  When the marker is present,  *)
(* gocryptfs -init is never run.                                           *)
(***************************************************************************)
NothingAfterMarker ==
    /\ ~Did("password")
    /\ ~Did("makedirs_mnt")
    /\ ~Did("gocryptfs")
    /\ ~Exists(fs[Mnt])

C14_InitOnlyWhenAllowed ==
    InConnect =>
      /\ (Did("marker") /\ ~Did("gocryptfs_init")) =>
           (DidRc("marker", 0) <=> remote.initialized)
      /\ (DidRc("marker", 1) /\ ~call.allow_init) =>
           /\ LastEntry = Ev("marker", 1)
           /\ Finished
           /\ result = R("RS3FRuntimeError", "Volume is not initialized")
           /\ ~Did("gocryptfs_init")
           /\ NothingAfterMarker
      /\ (DidRc("marker", 1) /\ call.allow_init) =>
           \/ Did("gocryptfs_init")
           \/ pc = "c_init"
           \/ result.cls = "KeyboardInterrupt"
      /\ (Did("gocryptfs_init") /\ ~DidRc("gocryptfs_init", 0)) =>
           /\ LastEntry.op = "gocryptfs_init"
           /\ Finished
           /\ result = R("RS3FRuntimeError", "Could not initialize volume")
           /\ NothingAfterMarker
      /\ DidRc("marker", 0) => ~Did("gocryptfs_init")
      /\ Did("gocryptfs_init") => (call.allow_init /\ DidRc("marker", 1))

C14_Witness ==
    /\ InConnect
    /\ Finished
    /\ DidRc("marker", 1)
    /\ call.allow_init
    /\ DidRc("gocryptfs_init", 1)
    /\ result = R("RS3FRuntimeError", "Could not initialize volume")

(***************************************************************************)
(* C15: within one connect call the password resolver is called at most    *)
(* once, and only after sshfs exited 0 and the marker was found or         *)
(* gocryptfs -init exited 0, every step before it having succeeded.  When  *)
(* the resolver raises, connect ends in the resolver's exception with no   *)
(* mountpoint directory made and no gocryptfs mount run.                   *)
(***************************************************************************)
C15_ResolverOnceAfterRawMount ==
    InConnect =>
      /\ Count("password") <= 1
      /\ \A i \in DOMAIN log :
           log[i].op = "password" =>
             /\ \E j \in 1..(i - 1) : log[j] = Ev("sshfs", 0)
             /\ \E j \in 1..(i - 1) : log[j] \in {Ev("marker", 0), Ev("gocryptfs_init", 0)}
             /\ \A j \in 1..(i - 1) :
                  \/ log[j].rc = 0
                  \/ log[j] = Ev("ssh", 255)
                  \/ log[j] = Ev("marker", 1)
      /\ DidRc("password", 1) =>
           /\ LastEntry = Ev("password", 1)
           /\ Finished
           /\ result = R("RuntimeError", "resolver")
           /\ ~Did("makedirs_mnt")
           /\ ~Did("gocryptfs")
           /\ ~IsMount(fs[Mnt])

C15_Witness ==
    /\ InConnect
    /\ Finished
    /\ DidRc("password", 1)
    /\ DidRc("gocryptfs_init", 0)
    /\ result = R("RuntimeError", "resolver")

(***************************************************************************)
(* C16: with $PATH set, a connect without sshfs or gocryptfs, and a        *)
(* disconnect without fusermount, raise BinaryMissingError having run no   *)
(* external process and changed nothing on disk; and whatever call ends in *)
(* BinaryMissingError has done neither.                                    *)
(***************************************************************************)
OnlyBinaryChecks == \A i \in DOMAIN log : log[i].op \in {"bincheck", "bincheck_fusermount", "disconnect"}
ConnectToolMissing == env.path_set /\ ~({"sshfs", "gocryptfs"} \subseteq env.bins)
DisconnectToolMissing == env.path_set /\ "fusermount" \notin env.bins

C16_MissingToolBeforeMutation ==
    /\ (InConnect /\ ConnectToolMissing) =>
         /\ Snapshot = start
         /\ OnlyBinaryChecks
         /\ log # <<>> =>
              /\ log = <<Ev("bincheck", 0)>>
              /\ Finished
              /\ result.cls = "BinaryMissingError"
              /\ result.msg \in {"sshfs", "gocryptfs"} \ env.bins
    /\ (InDisconnect /\ DisconnectToolMissing) =>
         /\ Snapshot = start
         /\ OnlyBinaryChecks
         /\ log # <<>> =>
              /\ log = <<Ev("bincheck_fusermount", 0)>>
              /\ Finished
              /\ result = R("BinaryMissingError", "fusermount")
    /\ (Finished /\ result.cls = "BinaryMissingError") =>
         /\ Snapshot = start
         /\ OnlyBinaryChecks

C16_Witness ==
    /\ InConnect
    /\ Finished
    /\ result = R("BinaryMissingError", "gocryptfs")
    /\ StartExists
    /\ Snapshot = start

(***************************************************************************)
(* C17: with every tool installed and the parent directory of the          *)
(* mountpoint in place, a connect or a disconnect made while               *)
(* $XDG_RUNTIME_DIR or $PATH is unset changes nothing on disk and runs     *)
(* nothing (no unmount, no mount, no directory made or removed), and ends  *)
(* in EnvironmentNotSetError.                                              *)
(***************************************************************************)
C17_EnvErrorBeforeAnyChange ==
    ( /\ call.op \in {"connect", "disconnect"}
      /\ env.bins = Tools
      /\ Mnt \in start.parents
      /\ ~env.xdg_set \/ ~env.path_set )
    => /\ Snapshot = start
       /\ OnlyBinaryChecks
       /\ Finished => result.cls \in {"EnvironmentNotSetError", "KeyboardInterrupt"}

(***************************************************************************)
(* C18: the probe returns normally exactly when ssh's stderr contains      *)
(* "Permission denied"; for every other stderr, whatever the exit code of  *)
(* ssh, it raises NetworkingError.                                         *)
(***************************************************************************)
SaysPermissionDenied(stderr) ==
    stderr \in { <<"alice@host:", "Permission", "denied", "(publickey,password).">>,
                 <<"Warning:", "Permanently", "added", "host.", "Permission", "denied">> }

C18_ReachableIffPermissionDenied ==
    (InConnect /\ loc.ssh # NoProbe) =>
      /\ LastEntry.op = "ssh"
      /\ loc.ssh.stderr \in SshStderrs
      /\ IF SaysPermissionDenied(loc.ssh.stderr)
         THEN result.cls \in {"none", "KeyboardInterrupt"} /\ (~Finished => pc = "c_uid")
         ELSE Finished /\ result = R("NetworkingError", "Could not reach SSH server")

C18_Witness ==
    /\ InConnect
    /\ pc = "c_uid"
    /\ loc.ssh # NoProbe
    /\ loc.ssh.rc = 0
    /\ SaysPermissionDenied(loc.ssh.stderr)

(***************************************************************************)
(* More vocabulary: the owner lookup.                                      *)
(***************************************************************************)
\* _get_remote_uid was called and is over
LookupDone ==
    /\ InConnect
    /\ DidRc("ssh", 255)
    /\ pc # "c_uid"
    /\ ~(result.cls = "KeyboardInterrupt" /\ LastEntry.op = "ssh")
\* the owner field of the gocryptfs_root line in the listings that begin with
\* the echoed command and have such a line with a numeric owner; 0 for the others
ExpectedOwner(stdout) ==
    CASE stdout = <<Echo, RootLine("1000"), <<>> >> -> 1000
      [] stdout = <<Echo, OtherLine, RootLine("1001"), <<>> >> -> 1001
      [] stdout = <<Echo, <<>>, RootLine("1000"), <<>> >> -> 1000
      [] OTHER -> 0

(***************************************************************************)
(* C19: the owner lookup runs its listing session whatever the port, an    *)
(* integer port included, and when the session exits 0 and its output,     *)
(* after the echoed command, has a gocryptfs_root line with a numeric      *)
(* owner, the lookup returns that owner, wherever the line is.             *)
(***************************************************************************)
C19_OwnerOfRootEntry ==
    LookupDone =>
      /\ Did("sftp")
      /\ (DidRc("sftp", 0) /\ ExpectedOwner(loc.stdout) # 0) =>
           /\ loc.remote_uid = ExpectedOwner(loc.stdout)
           /\ result.cls \notin {"IndexError", "ValueError", "TypeError", "RS3FRuntimeError"}
                \/ Did("write_uidfile")

(***************************************************************************)
(* C20: with a port that is not an integer, the owner lookup fails in two  *)
(* ways only: a nonzero exit of the listing session raises                 *)
(* InvalidSSHCredentials, and a zero exit whose output has no              *)
(* gocryptfs_root entry (empty output and output with blank lines          *)
(* included) raises the RS3FRuntimeError "not a valid volume"; no other    *)
(* exception leaves it.                                                    *)
(***************************************************************************)
NoRootEntry(stdout) ==
    stdout \in { <<Echo, OtherLine, <<>> >>, <<Echo, OtherLine>>, << <<>> >> }
LookupRaised ==
    /\ LookupDone
    /\ Finished
    /\ ~Did("write_uidfile")
    /\ result.cls \notin {"ok", "KeyboardInterrupt"}

C20_TwoFailureKinds ==
    (LookupDone /\ call.port # "int") =>
      /\ (Did("sftp") /\ ~DidRc("sftp", 0)) =>
           (Finished /\ result.cls = "InvalidSSHCredentials")
      /\ (DidRc("sftp", 0) /\ NoRootEntry(loc.stdout)) =>
           (Finished /\ result = R("RS3FRuntimeError", "not a valid volume"))
      /\ LookupRaised =>
           \/ result.cls = "InvalidSSHCredentials"
           \/ result = R("RS3FRuntimeError", "not a valid volume")

(***************************************************************************)
(* C21: when sshfs is invoked, and from then on in the call, the uid-file  *)
(* and the gid-file are at {runtime_dir}/uidfile_{key} and                 *)
(* {runtime_dir}/gidfile_{key}, holding "{local user}:{remote uid}",       *)
(* "root:0" and "users:999", "root:0", the remote uid being the owner the  *)
(* lookup of this call read from its listing.                              *)
(***************************************************************************)
SshfsInvoked == InConnect /\ (pc = "c_sshfs" \/ Did("sshfs"))

C21_IdentityFilesAtRawMount ==
    (SshfsInvoked /\ Mnt = "/mnt/vol") =>
      /\ ExpectedOwner(loc.stdout) # 0
      /\ idfiles["/run/user/1000/uidfile_9bbffa0e"].content =
           << <<"bob", ExpectedOwner(loc.stdout)>>, <<"root", 0>> >>
      /\ idfiles["/run/user/1000/gidfile_9bbffa0e"].content =
           << <<"users", 999>>, <<"root", 0>> >>

C21_Witness ==
    /\ InConnect
    /\ DidRc("sshfs", 0)
    /\ start.idfiles[uidfile_path(Mnt)] = NoFile
    /\ idfiles[uidfile_path(Mnt)].content = UIDFILE("bob", 1001)

(***************************************************************************)
(* C22: in every state, the states between the statements of connect's     *)
(* identity-file step included, an identity file that exists has mode      *)
(* 0600.                                                                   *)
(***************************************************************************)
C22_IdentityFilesAlways0600 ==
    \A p \in IdPaths : idfiles[p] # NoFile => idfiles[p].mode = 384

(***************************************************************************)
(* C23: when disconnect returns normally, whether called by the user or by *)
(* connect for its cleanup, neither the mountpoint nor the raw mount path  *)
(* is on disk, whatever the two were when it was called.                   *)
(***************************************************************************)
C23_NothingLeftAfterDisconnect ==
    /\ (InDisconnect /\ Finished /\ result = Ok) => NowAbsent
    /\ (InConnect /\ Did("disconnect") /\ pc = "c_probe") => NowAbsent

C23_Witness ==
    /\ InDisconnect
    /\ Finished
    /\ result = Ok
    /\ start.fs[Mnt] = "broken"
    /\ start.fs[RawPath] = "mounted"
    /\ NowAbsent

Me == [pc |-> pc, call |-> call, loc |-> loc, result |-> result, log |-> log, start |-> start]
\* each process paired with the other one
ProcessPairs == { <<Me, other>>, <<other, Me>> }
ProcDid(p, op, rc) == \E i \in DOMAIN p.log : p.log[i] = Ev(op, rc)
SameVolume(a, b) == b.call.op = "connect" /\ b.call.mountpoint = a.call.mountpoint
\* process a made the raw directory and has not yet run sshfs on it
HoldsRawDirectory(a) ==
    /\ a.call.op = "connect"
    /\ a.pc = "c_sshfs"
    /\ ProcDid(a, "makedirs_raw", 0)

(***************************************************************************)
(* C25: nothing keeps two connect calls on one mountpoint apart.  A call   *)
(* that has just made its raw directory can find it gone or mounted, and a *)
(* call whose stale-state check passed can fail to make a directory that   *)
(* exists; each of the two happens, and happens only when another connect  *)
(* on the same mountpoint ran beside it.                                   *)
(***************************************************************************)
C25_DamageOnlyFromConcurrentConnect ==
    \A pair \in ProcessPairs :
      LET a == pair[1]
          b == pair[2] IN
      /\ (HoldsRawDirectory(a) /\ fs[get_raw_mount_path(a.call.mountpoint)] # "dir") =>
           SameVolume(a, b)
      /\ (a.call.op = "connect" /\ (ProcDid(a, "makedirs_raw", 1) \/ ProcDid(a, "makedirs_mnt", 1))) =>
           SameVolume(a, b)

\* one call's cleanup has removed the raw directory the other call made
C25_Witness ==
    \E pair \in ProcessPairs :
      LET a == pair[1]
          b == pair[2] IN
      /\ HoldsRawDirectory(a)
      /\ a.start.fs[get_raw_mount_path(a.call.mountpoint)] = "absent"
      /\ SameVolume(a, b)
      /\ ProcDid(b, "disconnect", 0)
      /\ ProcDid(b, "rmdir_raw", 0)
      /\ fs[get_raw_mount_path(a.call.mountpoint)] = "absent"


(***************************************************************************)
(* C26.  connect returns normally only if every external step it           *)
(* performed succeeded: the stale-state cleanup, when there was one, ran   *)
(* no fusermount that exited nonzero and no rmdir that raised; the probe   *)
(* was classified reachable; the listing session exited 0 and the owner    *)
(* was found in its output; sshfs exited 0; gocryptfs -init, when it ran,  *)
(* exited 0; and the gocryptfs mount exited 0.  No failure is swallowed.   *)
(***************************************************************************)
CleanupOps == {"fusermount_mnt", "fusermount_raw", "rmdir_mnt", "rmdir_raw"}
ExitCodeOps == CleanupOps \cup {"sftp", "sshfs", "gocryptfs_init", "gocryptfs"}
ReturnedNormally == InConnect /\ Finished /\ result = Ok

C26_SuccessMeansEveryStepSucceeded ==
    ReturnedNormally =>
        /\ \A i \in DOMAIN log :
             /\ log[i].op \in ExitCodeOps => log[i].rc = 0
             /\ log[i].op = "ssh" => log[i].rc = 255
        /\ Count("ssh") = 1 /\ Count("sftp") = 1 /\ Count("sshfs") = 1 /\ Count("gocryptfs") = 1
        /\ ParseListing(loc.stdout).cls = "uid"
        /\ loc.remote_uid = ParseListing(loc.stdout).uid
        /\ (start.fs[Mnt] # "absent" \/ start.fs[RawPath] # "absent") => Did("disconnect")
        /\ (Did("marker") /\ ~DidRc("marker", 0)) => DidRc("gocryptfs_init", 0)

\* connect returned normally after a cleanup that unmounted a layer and after
\* initializing the volume
C26_Witness ==
    /\ ReturnedNormally
    /\ Did("disconnect")
    /\ \E i \in DOMAIN log : log[i].op \in {"fusermount_mnt", "fusermount_raw"}
    /\ DidRc("gocryptfs_init", 0)
    /\ fs[Mnt] = "mounted"


(***************************************************************************)
(* C27.  The resolved password reaches a process only on the standard      *)
(* input of the gocryptfs mount: it is no piece of any argument of any     *)
(* process connect has run (fusermount of the cleanup, ssh, sftp, sshfs,   *)
(* gocryptfs -init, gocryptfs), it is on the standard input of no other    *)
(* process, and it is in no identity file.                                 *)
(***************************************************************************)
Resolved == InConnect /\ loc.password_str \notin {"", "None"}
InToken(word, token) == \E k \in DOMAIN token : token[k] = word
InArgv(word, argv) == \E j \in DOMAIN argv : InToken(word, argv[j])
InFile(word, path) ==
    \E l \in DOMAIN idfiles[path].content : idfiles[path].content[l][1] = word
LastProc == loc.procs[Len(loc.procs)]

C27_PasswordOnlyOnStdin ==
    Resolved =>
        /\ \A i \in DOMAIN loc.procs :
             /\ ~InArgv(loc.password_str, loc.procs[i].argv)
             /\ InToken(loc.password_str, loc.procs[i].input) =>
                  /\ i = Len(loc.procs)
                  /\ LastEntry.op = "gocryptfs"
                  /\ loc.procs[i].argv[1] = <<"gocryptfs">>
                  /\ loc.procs[i].argv[2] # <<"-init">>
        /\ \A path \in DOMAIN idfiles : ~InFile(loc.password_str, path)
        /\ Did("gocryptfs") => LastProc.input = <<loc.password_str>>

\* a connect that ran the cleanup, the probe, the listing, the raw mount and
\* the gocryptfs mount, the password delivered to the last
C27_Witness ==
    /\ Resolved
    /\ Finished /\ result = Ok
    /\ Did("disconnect")
    /\ Len(loc.procs) >= 5
    /\ LastProc.argv = GocryptfsArgs
    /\ LastProc.input = <<"secret">>
    /\ idfiles[uidfile_path(Mnt)].content # <<>>


(***************************************************************************)
(* C28.  disconnect never removes or modifies the identity files: during   *)
(* and after every disconnect, successful or failed, called directly or as *)
(* the cleanup of connect, every identity file has the content and mode it *)
(* had when the call began, and no step of disconnect changes one.         *)
(***************************************************************************)
C28_DisconnectKeepsIdentityFiles ==
    /\ Disconnecting => idfiles = start.idfiles
    /\ (InConnect /\ Did("disconnect") /\ ~Did("write_uidfile")) => idfiles = start.idfiles

\* a successful disconnect after a successful connect: both layers are gone,
\* the two files of the connect are still there with mode 0600
C28_Witness ==
    /\ InDisconnect /\ Finished /\ result = Ok
    /\ prev.op = "connect" /\ prev.result = Ok
    /\ DidRc("rmdir_mnt", 0) /\ DidRc("rmdir_raw", 0)
    /\ idfiles[uidfile_path(Mnt)] = [content |-> UIDFILE(LocalUser, 1000), mode |-> Mode600]
    /\ idfiles[gidfile_path(Mnt)] = [content |-> GIDFILE, mode |-> Mode600]


(***************************************************************************)
(* C29.  fetch_password tries the registered fetchers one at a time in     *)
(* descending priority order, the interactive prompt last; it goes on to   *)
(* the next one exactly when the construction raised, the lookup raised or *)
(* the lookup returned None; it returns the first password that is not     *)
(* None and neither constructs nor queries a later fetcher; it raises      *)
(* RuntimeError when every fetcher was skipped.                            *)
(***************************************************************************)
Imported == fetch.phase \notin {"unloaded", "import"} \/ (fetch.phase = "import" /\ fetch.todo = <<>>)
PositionOf(class_) == CHOOSE k \in DOMAIN fetch.registry : fetch.registry[k] = class_
SkippedBy(e) ==
    \/ e.step = "construct" /\ e.out = "raise"
    \/ e.step = "get_password" /\ e.out \in {"None", "raise"}
FetcherSkipped(class_) == \E a \in DOMAIN fetch.trace : fetch.trace[a].cls = class_ /\ SkippedBy(fetch.trace[a])
EventsOf(class_) == {a \in DOMAIN fetch.trace : fetch.trace[a].cls = class_}

C29_FetchersInPriorityOrder ==
    Imported =>
        \* the registry: every class once, by descending priority, the prompt last
        /\ Len(fetch.registry) = Len(FetcherClasses)
        /\ \A k \in DOMAIN FetcherClasses : \E j \in DOMAIN fetch.registry :
                fetch.registry[j] = FetcherClasses[k]
        /\ \A j, k \in DOMAIN fetch.registry :
                j < k => Priority(fetch.registry[j]) >= Priority(fetch.registry[k])
        /\ fetch.registry[Len(fetch.registry)] = "StdinPasswordFetcher"
        \* one at a time, in the order of the registry, the next one only
        \* after the one before was skipped
        /\ \A a \in DOMAIN fetch.trace :
             LET e == fetch.trace[a] IN
             /\ \A j \in 1..(PositionOf(e.cls) - 1) : FetcherSkipped(fetch.registry[j])
             /\ \A b \in DOMAIN fetch.trace :
                   a < b => PositionOf(e.cls) <= PositionOf(fetch.trace[b].cls)
             /\ e.step = "get_password" =>
                   a > 1 /\ fetch.trace[a - 1] = Tried(e.cls, "construct", "ok")
             /\ Cardinality({b \in EventsOf(e.cls) : fetch.trace[b].step = e.step}) = 1
             \* a skipped fetcher is followed by the next one, a password ends the call
             /\ (SkippedBy(e) /\ a < Len(fetch.trace)) =>
                   PositionOf(fetch.trace[a + 1].cls) = PositionOf(e.cls) + 1
             /\ (SkippedBy(e) /\ a = Len(fetch.trace)) =>
                   IF PositionOf(e.cls) = Len(fetch.registry)
                   THEN fetch.phase = "done" /\ fetch.result.cls = "RuntimeError"
                   ELSE fetch.phase = "construct" /\ fetch.i = PositionOf(e.cls) + 1
             /\ e.out = "password" =>
                   /\ a = Len(fetch.trace)
                   /\ fetch.phase = "done"
                   /\ fetch.result = R("ok", PasswordOf(e.cls))
        /\ fetch.phase = "done" =>
             \/ /\ fetch.result.cls = "ok"
                /\ fetch.trace # <<>>
                /\ fetch.trace[Len(fetch.trace)].out = "password"
             \/ /\ fetch.result.cls = "RuntimeError"
                /\ \A j \in DOMAIN fetch.registry : FetcherSkipped(fetch.registry[j])

\* pass is not installed, keepassxc-cli has no entry, the user types the password
C29_Witness ==
    /\ fetch.phase = "done"
    /\ fetch.trace = << Tried("PassPasswordFetcher", "construct", "raise"),
                        Tried("KeepassxcPasswordFetcher", "construct", "ok"),
                        Tried("KeepassxcPasswordFetcher", "get_password", "None"),
                        Tried("StdinPasswordFetcher", "construct", "ok"),
                        Tried("StdinPasswordFetcher", "get_password", "password") >>
    /\ fetch.result = R("ok", PasswordOf("StdinPasswordFetcher"))


(***************************************************************************)
(* C30.  Every front end reacts to a failed connect, whatever was raised,  *)
(* with a cleanup disconnect on the same mountpoint, and the command line  *)
(* then exits with a nonzero status.                                       *)
(***************************************************************************)
FrontOver == front.phase \in {"exited", "returned", "propagated"}
ConnectFailedUnder(callers) ==
    /\ front.caller \in callers
    /\ front.failure # ""
C30_EveryCallerCleansUp ==
    (FrontOver /\ ConnectFailedUnder(Callers)) =>
        /\ front.cleanup
        /\ InDisconnect /\ Mnt = front.mountpoint /\ Did("bincheck_fusermount")
        /\ front.caller \in CommandLines => NonZero(front.status)


(***************************************************************************)
(* C31.  A layer path that is listed in its parent directory but cannot    *)
(* be stat'ed is treated by disconnect as still mounted: fusermount -u is  *)
(* run on it before anything else is done to it, after exit 0 the          *)
(* directory is removed, and the layer is never passed over as absent nor  *)
(* handed to os.rmdir as already unmounted.                                *)
(***************************************************************************)
LayerPassed(layer) ==
    \/ layer = "mnt" /\ call.li = 2
    \/ Finished /\ result = Ok
    \/ InConnect /\ ~call.nested /\ Did("disconnect")

C31_BrokenMountIsUnmounted ==
    \A layer \in Layers :
        ((InDisconnect \/ (InConnect /\ Did("disconnect")))
          /\ start.fs[PathOf(layer)] = "broken") =>
            /\ RmdirTried(layer) => DidRc("fusermount_" \o layer, 0)
            /\ LayerPassed(layer) =>
                  /\ DidRc("fusermount_" \o layer, 0)
                  /\ DidRc("rmdir_" \o layer, 0)
            /\ (Disconnecting /\ fs[PathOf(layer)] # "broken") =>
                  Did("fusermount_" \o layer)
            /\ (Disconnecting /\ pc = "u_rmdir" /\ CurLayer = layer) =>
                  fs[PathOf(layer)] = "dir"

\* a disconnect that found the mountpoint broken, unmounted it and removed it
C31_Witness ==
    /\ InDisconnect /\ Finished /\ result = Ok
    /\ start.fs[Mnt] = "broken"
    /\ DidRc("fusermount_mnt", 0) /\ DidRc("rmdir_mnt", 0)
    /\ fs[Mnt] = "absent"


(***************************************************************************)
(* C32.  Neither disconnect nor the stale-state cleanup of connect deletes *)
(* the contents of a directory.  A directory with files that was at the    *)
(* mountpoint when the call began is still there with its files at every   *)
(* later point of the call; the call never returns normally; and when the  *)
(* teardown reaches os.rmdir, the call ends there with OSError, with no    *)
(* fusermount run on the directory and the raw layer not touched.          *)
(***************************************************************************)
C32_ContentsNeverDeleted ==
    \A p \in DOMAIN fs :
        (call.op \in {"connect", "disconnect"} /\ start.fs[p] = "nonempty") =>
            /\ fs[p] = "nonempty"
            /\ p = Mnt =>
                  /\ result # Ok
                  /\ ~Did("fusermount_mnt")
                  /\ RmdirTried("mnt") =>
                        /\ Finished /\ result.cls = "OSError"
                        /\ LastEntry = Ev("rmdir_mnt", 1)
                        /\ fs[RawPath] = start.fs[RawPath]

\* connect found files at the mountpoint, its cleanup stopped at os.rmdir
C32_Witness ==
    /\ InConnect /\ Finished /\ result.cls = "OSError"
    /\ Did("disconnect") /\ DidRc("rmdir_mnt", 1)
    /\ start.fs[Mnt] = "nonempty" /\ fs[Mnt] = "nonempty"


(***************************************************************************)
(* C33.  In the tray, toggle_mount is never called with mount=True for a   *)
(* volume that is in MOUNTED_VOLUMES: after any sequence of menu toggles,  *)
(* volume additions, deletions and menu reloads, the "Volume is already    *)
(* mounted" error is not raised.                                           *)
(***************************************************************************)
C33_AlreadyMountedUnreachable == tray.error # "Volume is already mounted"


(***************************************************************************)
(* C34.  In the tray, MOUNTED_VOLUMES tracks the real mount state: between *)
(* two callbacks, after any sequence of toggle_mount and delete_selected   *)
(* calls, those in which connect or disconnect raises included, a volume   *)
(* is a key of MOUNTED_VOLUMES exactly when its last connect returned      *)
(* normally and no disconnect of it has returned normally since.           *)
(***************************************************************************)
C34_MountedVolumesTracksMounts ==
    SlotIdle => DOMAIN tray.MOUNTED_VOLUMES = tray.open

====
